---- MODULE Spec2Model ----
(***************************************************************************)
(* Model of the AlphaRNG host API: the SP.800-90B health tests             *)
(* (HealthTests.cpp) and the command engine of AlphaRngApi.cpp (connect,   *)
(* framed commands with retries, bulk reads in the framed path and in the  *)
(* no-cipher fast path) talking to a UsbSerialDevice.                      *)
(***************************************************************************)
EXTENDS Integers, Sequences, FiniteSets, TLC

(***************************************************************************)
(* Bounds of the model.                                                    *)
(***************************************************************************)
\* block_size_bytes argument of get_bytes / get_unpacked_bytes, scaled down
\* (the code passes 16000); two APT windows of 65 bytes.
BlockSizeBytes == 130
\* length of the trailing partial block offered to bulk reads
PartialBytes == 30
\* API calls made on one instance
MaxCalls == 2
\* test() calls without restart() stop once a counter reaches this value
MaxFailures == 7
\* wall clock seconds
MaxTime == 1
\* abnormal events in one run: failures of the link or of a primitive,
\* malformed or refusing responses, output of a failing noise source, and
\* ticks of the wall clock
MaxFaults == 3
\* wall clock seconds in the runs of the session time-to-live
MaxClock == 150

\* bits of the integers of RandomRangeSequence in the model (32 in the source)
IntBits == 3

\* whole noise buffers of the longest ordinary extract_entropy call
MaxBuffers == 2

\* payload bytes of the longest command whose packet size is computed
MaxCmdPayload == 40

(***************************************************************************)
(* Program constants.                                                      *)
(***************************************************************************)
c_max_command_retry_count == 3
s_min_num_failures_threshold == 5
rct_signature == 1
rct_max_repetitions == 5
apt_signature == 2
apt_window_size == 64
apt_cutoff_value == 5
MacType_None == 0
MacType_hmacMD5 == 16
MacType_hmacSha256 == 32
KeySize_None == 0
KeySize_k256 == 32
KeySize_k128 == 16
c_test_data_block_size_bytes == 256
SizeofFrequencyTables == 1024
SizeofDeviceInfo == 32
PacketType_aes == 40
PacketType_pkRSA2048 == 1
ResponsePayloadCapacity == 16096
SizeofCommandPayload == 256
SizeofResponse == 16139
TwoTo16 == 65536

\* hashes one noise buffer of ShaEntropyExtractor gives
HashesPerBuffer == 1000
\* value RAND_bytes gave m_token_serial_number in initialize()
TokenSerialSeed == 65534

VARIABLES
    ht,          \* m_health_test: the HealthTests object of the API instance
    api,         \* the AlphaRngApi instance and its UsbSerialDevice
    call,        \* the API call in progress: position and locals
    obs          \* what an observer of the call and of the wire records

vars == <<ht, api, call, obs>>

(***************************************************************************)
(* Byte blocks.  A block is named by a pattern; PatternByte gives byte j.  *)
(***************************************************************************)
Patterns == {"ramp", "zeros", "alt", "burst"}

PatternByte(p, j) ==
    CASE p = "ramp"  -> j % 256
      [] p = "zeros" -> 0
      [] p = "alt"   -> j % 2
      [] p = "burst" -> IF j < 9 THEN 0 ELSE (j % 255) + 1

(***************************************************************************)
(* HealthTests                                                             *)
(***************************************************************************)
rct_restart(r) ==
    [r EXCEPT !.is_initialized = FALSE, !.cur_repetitions = 1, !.failure_count = 0]

rct_initialize ==
    rct_restart([last_sample |-> 0, cur_repetitions |-> 0, failure_count |-> 0,
                 status_byte |-> 0, is_initialized |-> FALSE])

apt_restart(a) ==
    [a EXCEPT !.is_initialized = FALSE, !.cycle_failures = 0]

apt_initialize ==
    apt_restart([first_sample |-> 0, cur_repetitions |-> 0, cur_samples |-> 0,
                 cycle_failures |-> 0, status_byte |-> 0, is_initialized |-> FALSE])

\* restart() that also takes back a latched status
restart_clearing(h) ==
    [h EXCEPT !.m_rct = rct_initialize, !.m_apt = apt_initialize]

HealthTests_new ==
    [m_apt |-> apt_initialize, m_rct |-> rct_initialize,
     m_num_failures_threshold |-> s_min_num_failures_threshold,
     m_max_rct_failures_per_block |-> 0,
     m_max_apt_failures_per_block |-> 0,
     m_tests_enabled |-> TRUE]

restart(h) ==
    [h EXCEPT !.m_rct = rct_restart(h.m_rct), !.m_apt = apt_restart(h.m_apt)]

is_error(h) == h.m_rct.status_byte # 0 \/ h.m_apt.status_byte # 0

get_health_status(h) ==
    IF h.m_rct.status_byte # 0 THEN h.m_rct.status_byte
    ELSE IF h.m_apt.status_byte # 0 THEN h.m_apt.status_byte
    ELSE 0

\* disable_tests() that clears the flag and leaves both tests as they are
disable_tests_keep(h) == [h EXCEPT !.m_tests_enabled = FALSE]

\* HealthTests::disable_tests()
disable_tests(h) ==
    IF h.m_tests_enabled
    THEN [h EXCEPT !.m_apt = apt_initialize, !.m_rct = rct_initialize,
                   !.m_tests_enabled = FALSE]
    ELSE h

enable_tests(h) ==
    IF ~h.m_tests_enabled THEN [h EXCEPT !.m_tests_enabled = TRUE] ELSE h

\* set_num_failures_threshold() that takes every value it is given
set_num_failures_threshold_any(h, n) == [h EXCEPT !.m_num_failures_threshold = n]

\* HealthTests::set_num_failures_threshold(num_failures_threshold)
set_num_failures_threshold(h, n) ==
    IF n > s_min_num_failures_threshold
    THEN [h EXCEPT !.m_num_failures_threshold = n]
    ELSE h

\* a latch condition that fires already at the threshold
LatchesBadly(count, threshold, status) == count >= threshold /\ status = 0

\* the latch condition of both tests: ++count > threshold && status_byte == 0
Latches(count, threshold, status) == count > threshold /\ status = 0

\* a repetition count test that counts one failure for a run, however long
rct_step_per_run(h, value) ==
    LET r == h.m_rct IN
    IF ~r.is_initialized
    THEN [h EXCEPT !.m_rct.is_initialized = TRUE, !.m_rct.last_sample = value]
    ELSE IF r.last_sample = value
    THEN IF r.cur_repetitions + 1 = rct_max_repetitions
         THEN LET fc == (r.failure_count + 1) % TwoTo16 IN
              [h EXCEPT !.m_rct.cur_repetitions = rct_max_repetitions,
                        !.m_rct.failure_count = fc,
                        !.m_rct.status_byte =
                            IF Latches(fc, h.m_num_failures_threshold, r.status_byte)
                            THEN rct_signature ELSE r.status_byte,
                        !.m_max_rct_failures_per_block =
                            IF fc > h.m_max_rct_failures_per_block
                            THEN fc ELSE h.m_max_rct_failures_per_block]
         ELSE [h EXCEPT !.m_rct.cur_repetitions =
                            IF r.cur_repetitions < rct_max_repetitions
                            THEN r.cur_repetitions + 1 ELSE r.cur_repetitions]
    ELSE [h EXCEPT !.m_rct.last_sample = value, !.m_rct.cur_repetitions = 1]

\* the 'repetition count' part of the loop body of test()
rct_step(h, value) ==
    LET r == h.m_rct IN
    IF ~r.is_initialized
    THEN [h EXCEPT !.m_rct.is_initialized = TRUE, !.m_rct.last_sample = value]
    ELSE IF r.last_sample = value
    THEN IF r.cur_repetitions + 1 >= rct_max_repetitions
         THEN LET fc == (r.failure_count + 1) % TwoTo16 IN
              [h EXCEPT !.m_rct.cur_repetitions = 1,
                        !.m_rct.failure_count = fc,
                        !.m_rct.status_byte =
                            IF Latches(fc, h.m_num_failures_threshold, r.status_byte)
                            THEN rct_signature ELSE r.status_byte,
                        !.m_max_rct_failures_per_block =
                            IF fc > h.m_max_rct_failures_per_block
                            THEN fc ELSE h.m_max_rct_failures_per_block]
         ELSE [h EXCEPT !.m_rct.cur_repetitions = r.cur_repetitions + 1]
    ELSE [h EXCEPT !.m_rct.last_sample = value, !.m_rct.cur_repetitions = 1]

\* the 'adaptive proportion' part of the loop body of test()
apt_step(h, value) ==
    LET a == h.m_apt IN
    IF ~a.is_initialized
    THEN [h EXCEPT !.m_apt.is_initialized = TRUE, !.m_apt.first_sample = value,
                   !.m_apt.cur_repetitions = 0, !.m_apt.cur_samples = 0]
    ELSE LET cs == (a.cur_samples + 1) % TwoTo16 IN
         IF cs >= apt_window_size
         THEN IF a.cur_repetitions > apt_cutoff_value
              THEN LET cf == (a.cycle_failures + 1) % TwoTo16 IN
                   [h EXCEPT !.m_apt.cur_samples = cs,
                             !.m_apt.is_initialized = FALSE,
                             !.m_apt.cycle_failures = cf,
                             !.m_apt.status_byte =
                                 IF Latches(cf, h.m_num_failures_threshold, a.status_byte)
                                 THEN apt_signature ELSE a.status_byte,
                             !.m_max_apt_failures_per_block =
                                 IF cf > h.m_max_apt_failures_per_block
                                 THEN cf ELSE h.m_max_apt_failures_per_block]
              ELSE [h EXCEPT !.m_apt.cur_samples = cs, !.m_apt.is_initialized = FALSE]
         ELSE [h EXCEPT !.m_apt.cur_samples = cs,
                        !.m_apt.cur_repetitions =
                            IF a.first_sample = value
                            THEN (a.cur_repetitions + 1) % TwoTo16
                            ELSE a.cur_repetitions]

\* the body of the for loop of test() for byte i of the block
test_byte(h, p, i) == apt_step(rct_step(h, PatternByte(p, i)), PatternByte(p, i))

\* the for loop of test() over bytes lo .. hi-1, split in halves so that the
\* evaluation nests to a depth logarithmic in the block length (reading
\* m_tests_enabled first makes the left half be evaluated before the right)
RECURSIVE test_loop(_, _, _, _)
test_loop(h, p, lo, hi) ==
    IF hi <= lo \/ ~h.m_tests_enabled THEN h
    ELSE IF hi = lo + 1 THEN test_byte(h, p, lo)
    ELSE LET mid == (lo + hi) \div 2 IN
         test_loop(test_loop(h, p, lo, mid), p, mid, hi)

\* HealthTests::test(in, in_length), the block `in` given by its pattern
test(h, p, in_length) ==
    IF ~h.m_tests_enabled THEN h ELSE test_loop(h, p, 0, in_length)


(***************************************************************************)
(* Tokens, MACs and the records on the wire                                *)
(***************************************************************************)
\* values RAND_bytes gives the 16 random bits of a token
Rnd16 == {4660}

\* create_token(): (seconds << 32) | (m_token_serial_number++ << 16) | rnd.
\* The serial is promoted to int before the shift, so a serial of 2^15 or
\* more gives a negative int whose conversion to 64 bits sets the upper 32
\* bits.  A token is kept as its fields: the upper 32 bits as two 16-bit
\* halves, the serial and the random tail.
create_token(a, rnd) ==
    [hi     |-> IF a.m_token_serial_number >= 32768
                THEN <<65535, 65535>>
                ELSE <<(a.now \div TwoTo16) % TwoTo16, a.now % TwoTo16>>,
     serial |-> a.m_token_serial_number,
     rnd    |-> rnd]

\* a serial that create_token leaves as it is
next_token_serial_stuck(a) == a.m_token_serial_number

\* m_token_serial_number++ on the uint16_t
next_token_serial(a) == (a.m_token_serial_number + 1) % TwoTo16

NoToken == [hi |-> <<0, 0>>, serial |-> 0, rnd |-> 0]

\* HmacInterface::hmac under the session MAC key: a tag names its key and
\* the bytes it covers
hmac(key, bytes) == <<"hmac", key, bytes>>

\* the bytes of a Response the MAC covers: token, payload_size and
\* payload[0 .. payload_size); a status byte that lies beyond payload_size
\* is not among them (-1)
response_mac_span(resp) ==
    <<resp.token, resp.payload_size,
      IF resp.payload_size >= resp.payload.size
      THEN resp.payload
      ELSE [resp.payload EXCEPT !.status = -1,
                                !.size = resp.payload_size]>>

\* a validation that leaves the memcmp out
mac_equal_unchecked(mac_field, computed) == TRUE

\* memcmp(resp->mac, tmp.mac, m_hmac->get_mac_size()): only the first
\* get_mac_size() bytes of the 32-byte mac field are compared
mac_equal(mac_field, computed) == mac_field.head = computed

\* a validation that takes any payload size
is_response_valid_unsized(a, resp) ==
    /\ resp.e_mac_type = a.m_cfg.e_mac_type
    /\ a.m_cfg.e_mac_type # MacType_None =>
           mac_equal(resp.mac, hmac(a.mac_key, response_mac_span(resp)))

\* AlphaRngApi::is_response_valid
is_response_valid(a, resp) ==
    /\ resp.e_mac_type = a.m_cfg.e_mac_type
    /\ resp.payload_size <= ResponsePayloadCapacity
    /\ a.m_cfg.e_mac_type # MacType_None =>
           mac_equal(resp.mac, hmac(a.mac_key, response_mac_span(resp)))

\* a padding that is added to a whole multiple as well
get_cmd_packet_payload_size_padded(a, cmd_struct_size_bytes) ==
    LET k == a.m_cfg.e_aes_key_size
    IN  IF k # KeySize_None
        THEN cmd_struct_size_bytes + (k - (cmd_struct_size_bytes % k))
        ELSE cmd_struct_size_bytes

\* get_cmd_packet_payload_size
get_cmd_packet_payload_size(a, cmd_struct_size_bytes) ==
    LET k == a.m_cfg.e_aes_key_size
    IN  IF k # KeySize_None /\ cmd_struct_size_bytes % k > 0
        THEN cmd_struct_size_bytes + (k - (cmd_struct_size_bytes % k))
        ELSE cmd_struct_size_bytes

\* get_resp_packet_payload_size
get_resp_packet_payload_size(a, actual_payload_size_bytes) ==
    LET packet_size == 1 + 32 + 8 + 2 + actual_payload_size_bytes
        k == a.m_cfg.e_aes_key_size
    IN  IF k # KeySize_None /\ packet_size % k > 0
        THEN packet_size + (k - (packet_size % k))
        ELSE packet_size

\* clear_response(): every byte 0x5c
cleared_response ==
    [e_mac_type |-> 92, mac |-> [head |-> <<"0x5c">>, tail |-> "0x5c"],
     token |-> NoToken, payload_size |-> 23644,
     payload |-> [data |-> "0x5c", status |-> 92, size |-> 0]]

\* AlphaRngApi::download_response: what receive_data delivered (`reply`)
\* against the expected packet payload size; the return code and the
\* caller's Response, written only once the packet passed the header checks
download_response(a, resp, reply, resp_packet_payload_size) ==
    IF reply.kind = "timeout" THEN [code |-> -7, resp |-> resp]
    ELSE IF reply.kind = "error" THEN [code |-> -1, resp |-> resp]
    ELSE IF \/ reply.e_type # PacketType_aes
            \/ reply.e_key_size # a.m_cfg.e_aes_key_size
            \/ reply.payload_size # resp_packet_payload_size
            \/ reply.payload_size > SizeofResponse
            \/ (reply.e_key_size # KeySize_None /\ ~reply.tag_ok)
    THEN [code |-> -1, resp |-> resp]
    ELSE IF ~is_response_valid(a, reply.resp)
    THEN [code |-> -1, resp |-> reply.resp]
    ELSE [code |-> 0, resp |-> reply.resp]

(***************************************************************************)
(* The device and the link, as the host sees them: what one receive_data   *)
(* call can deliver in answer to a request.                                *)
(***************************************************************************)
\* a Response as the device builds it for `token`, MAC'd under `key`
device_response(mac_type, key, token, payload_size, data, status, n) ==
    LET r == [token |-> token, payload_size |-> payload_size,
              payload |-> [data |-> data, status |-> status, size |-> n]]
    IN  [e_mac_type |-> mac_type,
         mac |-> [head |-> IF mac_type = MacType_None THEN <<"none">>
                           ELSE hmac(key, response_mac_span(r)),
                  tail |-> "zero"],
         token |-> r.token, payload_size |-> r.payload_size, payload |-> r.payload]

\* the well-formed reply to a request with `token` that asks for n payload
\* bytes: n - 1 bytes of `data` and the status byte
good_reply(a, token, n, data, status) ==
    [kind |-> "packet", e_type |-> PacketType_aes,
     e_key_size |-> a.m_cfg.e_aes_key_size,
     payload_size |-> get_resp_packet_payload_size(a, n),
     tag_ok |-> TRUE,
     resp |-> device_response(a.m_cfg.e_mac_type, a.mac_key, token, n, data, status, n)]

\* a MAC key that is not the one m_hmac holds
NotTheSessionKey(a) == a.mac_key + 1

\* ways a reply can be wrong, one at a time
ReplyFaults(a) ==
    {"timeout", "error", "type", "key_size", "packet_size", "mac_type", "token", "short",
     "oversize"}
    \cup (IF a.m_cfg.e_aes_key_size # KeySize_None THEN {"tag"} ELSE {})
    \cup (IF a.m_cfg.e_mac_type # MacType_None THEN {"mac"} ELSE {})
    \cup (IF a.m_cfg.e_mac_type \notin {MacType_None, MacType_hmacSha256}
          THEN {"mac_tail"} ELSE {})

faulty_reply(a, token, stale, n, f) ==
    LET g == good_reply(a, token, n, "ramp", 0) IN
    CASE f = "timeout"     -> [kind |-> "timeout"]
      [] f = "error"       -> [kind |-> "error"]
      [] f = "type"        -> [g EXCEPT !.e_type = PacketType_pkRSA2048]
      [] f = "key_size"    -> [g EXCEPT !.e_key_size = 16]
      [] f = "packet_size" -> [g EXCEPT !.payload_size = @ + 1]
      [] f = "tag"         -> [g EXCEPT !.tag_ok = FALSE]
      [] f = "mac_type"    -> [g EXCEPT !.resp.e_mac_type =
                                  IF @ = MacType_None THEN MacType_hmacSha256
                                  ELSE MacType_None]
      [] f = "mac"         -> [g EXCEPT !.resp.mac.head =
                                  hmac(NotTheSessionKey(a), response_mac_span(g.resp))]
      [] f = "mac_tail"    -> [g EXCEPT !.resp.mac.tail = "junk"]
      [] f = "token"       -> [g EXCEPT !.resp =
                                  device_response(a.m_cfg.e_mac_type, a.mac_key,
                                                  stale, n, "ramp", 0, n)]
      [] f = "short"       -> [g EXCEPT !.resp =
                                  device_response(a.m_cfg.e_mac_type, a.mac_key,
                                                  token, 0, "ramp", 0, n)]
      [] f = "oversize"    -> [g EXCEPT !.resp =
                                  device_response(a.m_cfg.e_mac_type, a.mac_key, token,
                                                  ResponsePayloadCapacity + 1,
                                                  "ramp", 0, n)]

(***************************************************************************)
(* Initial state: the objects as their constructors leave them.            *)
(***************************************************************************)
Configs ==
    { [e_mac_type |-> MacType_None,       e_aes_key_size |-> KeySize_None],
      [e_mac_type |-> MacType_hmacMD5,    e_aes_key_size |-> KeySize_None],
      [e_mac_type |-> MacType_hmacSha256, e_aes_key_size |-> KeySize_k256] }

\* AesCryptor::initialize fills m_iv_serial_number from RAND_bytes; the
\* value drawn here is two short of the 32-bit wrap.  The serial is kept as
\* its high and low 16-bit halves.
IvSerialSeed == <<TwoTo16 - 1, TwoTo16 - 2>>

NoIv == <<0 - 1, 0 - 1>>

\* m_iv_serial_number++ on the uint32_t, by halves
iv_serial_after(s) ==
    IF s[2] = TwoTo16 - 1 THEN <<(s[1] + 1) % TwoTo16, 0>> ELSE <<s[1], s[2] + 1>>

uses_aes(a) == a.m_cfg.e_aes_key_size # KeySize_None

\* initialize_aes: with a cipher configured, a new AesCryptor and with it a
\* new IV serial
initialize_aes(a) ==
    IF uses_aes(a) THEN [a EXCEPT !.m_iv_serial_number = IvSerialSeed] ELSE a

\* an IV generation that leaves the serial where it was
initialize_iv_reused(a) == a

\* AesCryptor::initialize_iv as the packet builders call it: the IV takes
\* the serial, the serial moves on
initialize_iv(a) ==
    IF uses_aes(a)
    THEN [a EXCEPT !.m_iv_serial_number = iv_serial_after(@)] ELSE a

\* m_iv as both cipher contexts hold it: initialize_iv sets the encryption
\* and the decryption context to the same m_iv, whose serial is the one
\* before m_iv_serial_number; decrypt() takes no IV from the packet received
context_iv(a) ==
    LET s == a.m_iv_serial_number IN
    IF s[2] = 0 THEN <<(s[1] + TwoTo16 - 1) % TwoTo16, TwoTo16 - 1>>
    ELSE <<s[1], s[2] - 1>>

\* the observer notes the IV serial in the packet built from cryptor state a
carried_iv(o, a) ==
    IF uses_aes(a) THEN [o EXCEPT !.last_iv = a.m_iv_serial_number] ELSE o

api_new(cfg) ==
    [m_cfg |-> cfg,
     m_device_connected |-> FALSE,      \* UsbSerialDevice::m_device_connected
     m_lock |-> FALSE,                  \* the flock on the device is held
     m_device_count |-> 0,
     m_token_serial_number |-> TokenSerialSeed,
     m_op_retry_count |-> 0,
     mac_key |-> 0,                     \* the key m_hmac holds: 0 is the
                                        \* constructor's, k the k-th generated
     now |-> 0,                         \* wall clock, seconds
     m_session_count |-> 0,
     m_expire_time_secs |-> 0,
     m_time_to_live_mins |-> 0,
     m_iv_serial_number |-> IvSerialSeed]   \* of m_aes_cryptor

\* no API call in progress
call_idle ==
    [pc |-> "idle", op |-> "none", framed |-> TRUE,
     out_length |-> 0, block_size_bytes |-> 0, test_data |-> FALSE,
     i |-> 0, conn_tries |-> 0, outer_tries |-> 0, tries |-> 0,
     token |-> NoToken, expected |-> 0, resp |-> cleared_response,
     accepted |-> FALSE, ok |-> FALSE, out |-> <<>>, result |-> FALSE,
     cmd_payload_size |-> 0,
     \* sess.token and resp of the upload_session_key that returned true
     sess_token |-> NoToken, sess_resp |-> cleared_response]

\* what an observer records: calls made and faults injected so far, whether
\* a connect() has succeeded since construction or the last disconnect()
\* (now, and when the current call began), and for the current call the
\* transmissions of each block's request, all transmissions, and whether a
\* block latched the health tests or carried a non-zero device status
obs_new ==
    [calls |-> 0, faults |-> 0, ht_reset |-> FALSE,
     session |-> FALSE, session_at_call |-> FALSE,
     sends |-> <<0, 0>>, sent |-> 0,
     last_token |-> NoToken,
     last_iv |-> NoIv,                  \* the IV serial of the last packet sent
     ht_failed |-> FALSE, dev_status |-> FALSE,
     \* the clock and the session members when the current command was issued,
     \* and whether the transport was torn down for it
     at_call |-> [now |-> 0, expire |-> 0, ttl |-> 0, count |-> 0,
                  torn_down |-> FALSE]]

Init ==
    /\ ht = HealthTests_new
    /\ \E cfg \in Configs : api = api_new(cfg)
    /\ call = call_idle
    /\ obs = obs_new

(***************************************************************************)
(* The health tests driven directly (get_health_tests() hands the object   *)
(* to the caller): any sequence of restart, test, enable, disable and      *)
(* set_num_failures_threshold calls.                                       *)
(***************************************************************************)
TestLengths == {65}
Thresholds == {5, 6}

HTRestart ==
    /\ ht' = restart(ht)
    /\ UNCHANGED <<api, call, obs>>

HTTest ==
    /\ ht.m_rct.failure_count < MaxFailures
    /\ ht.m_apt.cycle_failures < MaxFailures
    /\ \E p \in Patterns, n \in TestLengths : ht' = test(ht, p, n)
    /\ UNCHANGED <<api, call, obs>>

HTDisable ==
    /\ ht' = disable_tests(ht)
    /\ obs' = [obs EXCEPT !.ht_reset = obs.ht_reset \/ ht.m_tests_enabled]
    /\ UNCHANGED <<api, call>>

HTEnable ==
    /\ ht' = enable_tests(ht)
    /\ UNCHANGED <<api, call, obs>>

HTSetThreshold ==
    /\ \E n \in Thresholds : ht' = set_num_failures_threshold(ht, n)
    /\ UNCHANGED <<api, call, obs>>

NextHT == HTRestart \/ HTTest \/ HTDisable \/ HTEnable \/ HTSetThreshold

InitHT ==
    /\ ht = HealthTests_new
    /\ api = api_new(CHOOSE cfg \in Configs : cfg.e_aes_key_size # KeySize_None)
    /\ call = call_idle
    /\ obs = obs_new

SpecHT == InitHT /\ [][NextHT]_vars

(***************************************************************************)
(* A block of one byte value run through test() after restart(), followed  *)
(* byte by byte (test() has no state of its own between bytes, so the      *)
(* object after byte i of the block is the object the loop holds there).   *)
(* Between blocks the caller may disable or enable the tests and set the   *)
(* threshold.                                                              *)
(***************************************************************************)
BlockLength256 == 256
BlockValues == {0, 255}

\* restart() and the entry of test() on a block of BlockLength256 bytes
BeginBlock ==
    /\ call.pc = "idle"
    /\ \E v \in BlockValues :
          call' = [pc |-> "block", value |-> v, i |-> 0]
    /\ ht' = restart(ht)
    /\ UNCHANGED <<api, obs>>

\* one pass of the for loop of test(); the call returns after the last byte
FeedByte ==
    /\ call.pc = "block"
    /\ ht' = IF ht.m_tests_enabled
             THEN apt_step(rct_step(ht, call.value), call.value)
             ELSE ht
    /\ call' = [call EXCEPT !.i = call.i + 1,
                            !.pc = IF call.i + 1 = BlockLength256
                                   THEN "idle" ELSE "block"]
    /\ UNCHANGED <<api, obs>>

NextBlock ==
    \/ BeginBlock
    \/ FeedByte
    \/ call.pc = "idle" /\ HTDisable
    \/ call.pc = "idle" /\ HTEnable
    \/ call.pc = "idle" /\ HTSetThreshold

SpecBlock == InitHT /\ [][NextBlock]_vars

(***************************************************************************)
(* The API calls.  A call runs from "idle" to "done" in steps that end     *)
(* where the code waits for the device; Return hands the result to the     *)
(* caller.                                                                 *)
(***************************************************************************)
\* AlphaRngApi::is_connected (is_initialized() holds after construction)
is_connected(a) == a.m_device_connected

\* UsbSerialDevice::disconnect: unlock and close when connected
usb_disconnect(a) ==
    IF a.m_device_connected
    THEN [a EXCEPT !.m_device_connected = FALSE, !.m_lock = FALSE]
    ELSE a

\* AlphaRngApi::disconnect
api_disconnect(a) == [usb_disconnect(a) EXCEPT !.m_device_count = 0]

\* the observer's record at the start of a call
begin_call(o) ==
    [o EXCEPT !.calls = @ + 1, !.session_at_call = o.session,
              !.sends = <<0, 0>>, !.sent = 0,
              !.ht_failed = FALSE, !.dev_status = FALSE]

\* the call returns r
done(c, r) == [c EXCEPT !.pc = "done", !.result = r]

CanCall == call.pc = "idle" /\ obs.calls < MaxCalls

\* is the bulk read served by get_bytes (framed) or by the no-cipher path
uses_get_bytes(a) ==
    a.m_cfg.e_mac_type # MacType_None \/ a.m_cfg.e_aes_key_size # KeySize_None

NumBlocks(c) ==
    (c.out_length \div c.block_size_bytes)
    + (IF c.out_length % c.block_size_bytes > 0 THEN 1 ELSE 0)

\* a trailing block copied at full length
BlockLength_full(c, i) == c.block_size_bytes

\* bytes of block i that go to the caller: block_size_bytes for the
\* `chunks` full blocks, ramaining_bytes for the trailing one
BlockLength(c, i) ==
    IF i < c.out_length \div c.block_size_bytes
    THEN c.block_size_bytes
    ELSE c.out_length % c.block_size_bytes

\* a restart() hoisted out of the loop: only before the first block
block_prologue_first_only(h, test_data, i) ==
    IF test_data /\ i = 0 THEN restart(h) ELSE h

\* m_health_test.restart() at the top of a block of get_bytes and of
\* get_unpacked_bytes
block_prologue(h, test_data, i) ==
    IF test_data THEN restart(h) ELSE h

\* the call at the request of block i
at_block(c, i) ==
    [c EXCEPT !.i = i, !.tries = 0, !.ok = FALSE, !.accepted = FALSE,
              !.resp = IF c.framed THEN cleared_response ELSE @,
              !.token = IF c.framed THEN NoToken ELSE @,
              !.expected = c.block_size_bytes + 1,
              !.pc = IF c.framed THEN "exec" ELSE "payload_try"]

BulkLengths == {0, PartialBytes, BlockSizeBytes + PartialBytes}

unset_out(c) == [b \in 1 .. NumBlocks(c) |-> [data |-> "unset", len |-> 0]]

\* get_bytes / get_unpacked_bytes_with_retry up to the first request
bulk_read(op, framed, block_size_bytes, test_data, lengths) ==
    /\ CanCall
    /\ obs' = begin_call(obs)
    /\ api' = api
    /\ \E out_length \in lengths :
         LET c0 == [call_idle EXCEPT !.op = op, !.framed = framed,
                                     !.out_length = out_length,
                                     !.block_size_bytes = block_size_bytes,
                                     !.test_data = test_data]
             c  == [c0 EXCEPT !.out = unset_out(c0)]
         IN  IF ~is_connected(api) \/ out_length < 1
             THEN call' = done(c0, FALSE) /\ ht' = ht
             ELSE /\ call' = at_block(c, 0)
                  /\ ht' = block_prologue(ht, test_data, 0)

get_noise_source_1 ==
    bulk_read("health_tested_read", uses_get_bytes(api), BlockSizeBytes, TRUE,
              BulkLengths)

get_noise_source_2 ==
    bulk_read("health_tested_read", uses_get_bytes(api), BlockSizeBytes, TRUE,
              BulkLengths)

get_entropy ==
    bulk_read("health_tested_read", uses_get_bytes(api), BlockSizeBytes, TRUE,
              BulkLengths)

get_noise ==
    bulk_read("health_tested_read", uses_get_bytes(api), BlockSizeBytes, TRUE,
              BulkLengths)

get_test_data ==
    bulk_read("get_test_data", TRUE,
              c_test_data_block_size_bytes, FALSE,
              {PartialBytes, c_test_data_block_size_bytes + PartialBytes})

\* get_noise_source_1, get_noise_source_2, get_entropy and get_noise differ
\* in the command they name to the device and in nothing the host does
HealthTestedReads == {"health_tested_read"}

BulkReads == HealthTestedReads \cup {"get_test_data"}

\* retrieve_rng_status, run_health_test, retrieve_frequency_tables: one
\* framed command
\* execute_command up to its loop: the checks on the connection and on
\* cmd->payload_size
execute_command(op, cmd_payload_size, resp_payload_size_bytes) ==
    /\ CanCall
    /\ obs' = begin_call(obs)
    /\ UNCHANGED <<api, ht>>
    /\ LET c == [call_idle EXCEPT !.op = op,
                                  !.cmd_payload_size = cmd_payload_size,
                                  !.expected = resp_payload_size_bytes]
       IN  IF ~is_connected(api) \/ cmd_payload_size > SizeofCommandPayload
           THEN call' = done(c, FALSE)
           ELSE call' = [c EXCEPT !.pc = "exec"]

\* the calls that send one command: cmd.payload_size = 0
command_call(op, resp_payload_size_bytes) ==
    execute_command(op, 0, resp_payload_size_bytes)

retrieve_rng_status ==
    command_call("retrieve_rng_status", 1)

run_health_test ==
    command_call("run_health_test", 1)

retrieve_frequency_tables ==
    command_call("retrieve_frequency_tables", SizeofFrequencyTables + 1)

\* retrieve_device_id (and _model, _major_version, _minor_version): the
\* stored DeviceInfo, no device I/O
retrieve_device_id ==
    /\ CanCall
    /\ obs' = begin_call(obs)
    /\ UNCHANGED <<api, ht>>
    /\ call' = done([call_idle EXCEPT !.op = "retrieve_device_id"], is_connected(api))

QueryCalls ==
    {"retrieve_rng_status", "run_health_test", "retrieve_frequency_tables",
     "retrieve_device_id"}

\* AlphaRngApi::disconnect called by the user
disconnect ==
    /\ CanCall
    /\ obs' = [begin_call(obs) EXCEPT !.session = FALSE]
    /\ api' = api_disconnect(api)
    /\ call' = done([call_idle EXCEPT !.op = "disconnect"], api.m_device_connected)
    /\ ht' = ht

\* AlphaRngApi::connect up to its retry loop
connect ==
    /\ CanCall
    /\ obs' = begin_call(obs)
    /\ ht' = ht
    /\ IF is_connected(api)
       THEN /\ api' = api
            /\ call' = done([call_idle EXCEPT !.op = "connect"], FALSE)
       ELSE /\ api' = [api EXCEPT !.m_op_retry_count = 0]
            /\ call' = [call_idle EXCEPT !.op = "connect", !.pc = "connect_try"]

\* the caller takes the result; the call's locals are gone
Return ==
    /\ call.pc = "done"
    /\ call' = call_idle
    /\ obs' = [obs EXCEPT !.session_at_call = FALSE, !.sends = <<0, 0>>, !.sent = 0,
                          !.ht_failed = FALSE, !.dev_status = FALSE]
    /\ UNCHANGED <<api, ht>>

(***************************************************************************)
(* Framed commands: execute_command and execute_command_internal           *)
(***************************************************************************)
CanFault == obs.faults < MaxFaults

\* the observer counts a transmission of the request of block i
transmitted(o, i) == [o EXCEPT !.sent = @ + 1, !.sends[i + 1] = @ + 1]

faulted(o) == [o EXCEPT !.faults = @ + 1]

\* the payload of a working device for the command: data bytes and the
\* status byte behind them
NormalPayload(c) ==
    IF c.op \in BulkReads \/ c.op = "connect" THEN <<"ramp", 0>> ELSE <<"none", 0>>

\* the payloads a well-formed response can carry for the command: the
\* normal one, a refusal in the status byte, and for a noise read the
\* output of a failing noise source
GoodPayloads(c) ==
    {NormalPayload(c)}
    \cup {<<NormalPayload(c)[1], 1>>}
    \cup (IF c.op \in HealthTestedReads THEN {<<p, 0>> : p \in Patterns} ELSE {})

\* what the observer counts for a well-formed response: one more abnormal
\* event unless the payload is the normal one
counted(o, c, g) == IF g = NormalPayload(c) THEN o ELSE faulted(o)

\* an attempt that takes any token
token_matches_any(token, resp) == TRUE

\* cmd->token != resp->token fails the attempt
token_matches(token, resp) == token = resp.token

\* the for loop of execute_command, get_payload_bytes_with_retry,
\* get_unpacked_bytes_with_retry and connect: is there another try
another_try(tries) == tries < c_max_command_retry_count

\* execute_command_internal has the return d of download_response: a
\* non-zero code or a token other than the command's fails the attempt
attempt_result(c, tok, d) ==
    [c EXCEPT !.pc = "exec_ret", !.token = tok,
              !.ok = (d.code = 0 /\ token_matches(tok, d.resp)),
              !.accepted = (d.code = 0), !.resp = d.resp]

\* execute_command_internal: one attempt of the command of the call.  The
\* attempt ends where a primitive fails (RAND_bytes before the token is
\* made; HMAC or AES after it), where send_data fails, or with what
\* download_response makes of the reply.
exec ==
    /\ call.pc = "exec"
    /\ ht' = ht
    /\ \E rnd \in Rnd16 :
         LET tok == create_token(api, rnd)
             a1  == [api EXCEPT !.m_token_serial_number = next_token_serial(api)]
             \* create_and_upload_command_packet called initialize_iv
             a2  == initialize_iv(a1)
             o1  == [obs EXCEPT !.last_token = tok]
             sent1(o) == carried_iv(transmitted(o, call.i), a1)
             ret(ok, acc, resp) ==
                 [call EXCEPT !.pc = "exec_ret", !.token = tok, !.ok = ok,
                              !.accepted = acc, !.resp = resp]
             receive(reply) ==
                 attempt_result(call, tok,
                     download_response(a2, call.resp, reply,
                                       get_resp_packet_payload_size(a2, call.expected)))
         IN
         \/ /\ CanFault                      \* RAND_bytes fails in create_token
            /\ api' = api
            /\ call' = [call EXCEPT !.pc = "exec_ret", !.ok = FALSE, !.accepted = FALSE]
            /\ obs' = faulted(obs)
         \/ /\ CanFault /\ uses_get_bytes(api)   \* the MAC fails
            /\ api' = a1
            /\ call' = ret(FALSE, FALSE, call.resp)
            /\ obs' = faulted(o1)
         \/ /\ CanFault /\ uses_aes(api)    \* the IV is made, get_iv or encrypt
            /\ api' = a2                     \* fails
            /\ call' = ret(FALSE, FALSE, call.resp)
            /\ obs' = faulted(o1)
         \/ /\ CanFault                      \* send_data fails
            /\ api' = a2
            /\ call' = ret(FALSE, FALSE, call.resp)
            /\ obs' = faulted(sent1(o1))
         \/ /\ CanFault
            /\ \E f \in ReplyFaults(a2) :
                 call' = receive(faulty_reply(a2, tok, obs.last_token, call.expected, f))
            /\ api' = a2
            /\ obs' = faulted(sent1(o1))
         \/ /\ \E g \in GoodPayloads(call) :
                 /\ g = NormalPayload(call) \/ CanFault
                 /\ call' = receive(good_reply(a2, tok, call.expected, g[1], g[2]))
                 /\ obs' = counted(sent1(o1), call, g)
            /\ api' = a2

\* a block whose test() result is not looked at
process_block_untested(c, h, payload) ==
    LET len == BlockLength(c, c.i) IN
    IF payload.status # 0
    THEN [verdict |-> "status", ht |-> h, out |-> c.out]
    ELSE [verdict |-> "ok",
          ht |-> IF c.test_data THEN test(h, payload.data, len) ELSE h,
          out |-> [c.out EXCEPT ![c.i + 1] = [data |-> payload.data, len |-> len]]]

\* the part of a block after its payload arrived, in get_bytes and (the
\* same lines) in get_unpacked_bytes: the device status byte, the copy to
\* the caller, the health tests
process_block(c, h, payload) ==
    LET len == BlockLength(c, c.i) IN
    IF payload.status # 0
    THEN [verdict |-> "status", ht |-> h, out |-> c.out]
    ELSE LET out1 == [c.out EXCEPT ![c.i + 1] = [data |-> payload.data, len |-> len]]
             h1 == IF c.test_data THEN test(h, payload.data, len) ELSE h
         IN  IF c.test_data /\ is_error(h1)
             THEN [verdict |-> "health", ht |-> h1, out |-> out1]
             ELSE [verdict |-> "ok", ht |-> h1, out |-> out1]

\* the observer notes why a block failed the read
noted(o, verdict) ==
    [o EXCEPT !.ht_failed = @ \/ verdict = "health",
              !.dev_status = @ \/ verdict = "status"]

\* the connect loop after a failed connect_internal: sleep, clear_receiver,
\* m_op_retry_count++, and the next try if there is one
connect_attempt_failed(a, c) ==
    [api |-> [a EXCEPT !.m_op_retry_count = @ + 1],
     call |-> IF another_try(c.conn_tries + 1)
              THEN [c EXCEPT !.conn_tries = @ + 1, !.pc = "connect_try"]
              ELSE done(c, FALSE)]

\* execute_command after an attempt returned, and its caller once
\* execute_command itself returns
exec_ret ==
    /\ call.pc = "exec_ret"
    /\ IF ~call.ok
       THEN LET a1 == [api EXCEPT !.m_op_retry_count = @ + 1] IN
            /\ ht' = ht
            /\ obs' = obs
            /\ IF another_try(call.tries + 1)
               THEN /\ api' = a1
                    /\ call' = [call EXCEPT !.tries = @ + 1, !.pc = "exec"]
               ELSE IF call.op = "connect"
               THEN /\ api' = connect_attempt_failed(a1, call).api
                    /\ call' = connect_attempt_failed(a1, call).call
               ELSE /\ api' = a1
                    /\ call' = done(call, FALSE)
       ELSE /\ api' = api
            /\ IF call.op = "connect"
               THEN /\ call' = done(call, TRUE)
                    /\ obs' = [obs EXCEPT !.session = TRUE]
                    /\ ht' = ht
               ELSE IF call.op \in BulkReads
               THEN \E b \in {process_block(call, ht, call.resp.payload)} :
                    LET c1 == [call EXCEPT !.out = b.out]
                    IN  /\ obs' = noted(obs, b.verdict)
                        /\ IF b.verdict # "ok"
                           THEN call' = done(c1, FALSE) /\ ht' = b.ht
                           ELSE IF call.i + 1 < NumBlocks(call)
                           THEN /\ call' = at_block(c1, call.i + 1)
                                /\ ht' = block_prologue(b.ht, call.test_data, call.i + 1)
                           ELSE call' = done(c1, TRUE) /\ ht' = b.ht
               ELSE /\ call' = done(call, call.op = "retrieve_rng_status"
                                          \/ call.resp.payload.status = 0)
                    /\ obs' = obs
                    /\ ht' = ht

(***************************************************************************)
(* connect: connect_internal and upload_session_key                        *)
(***************************************************************************)
\* upload_session_key has the return d of download_response
session_received(c, tok, d) ==
    [c EXCEPT !.pc = "session_ret", !.token = tok, !.expected = 1,
              !.accepted = (d.code = 0), !.resp = d.resp]

\* one pass of the loop of connect() up to the response to the session
\* packet: disconnect(), then connect_internal as far as download_response
\* in upload_session_key
connect_try ==
    /\ call.pc = "connect_try"
    /\ ht' = ht
    /\ LET a0 == api_disconnect(api)
           \* get_device_count found the device, UsbSerialDevice::connect
           \* opened and locked it
           a_open == [a0 EXCEPT !.m_device_count = 1,
                                !.m_device_connected = TRUE, !.m_lock = TRUE]
           \* m_hmac->generate_new_key()
           a_aes == initialize_aes(a_open)
           a_key == IF a_aes.m_cfg.e_mac_type # MacType_None
                    THEN [a_aes EXCEPT !.mac_key = @ + 1] ELSE a_aes
           fail(a) == /\ CanFault
                      /\ api' = connect_attempt_failed(a, call).api
                      /\ call' = connect_attempt_failed(a, call).call
       IN
       \/ fail(a0) /\ obs' = faulted(obs)          \* no device, or it cannot be
                                                   \* opened or locked
       \/ fail(a_open) /\ obs' = faulted(obs)      \* the slow timeout, the new MAC
                                                   \* key or the new cipher fails
       \/ fail(a_key) /\ obs' = faulted(obs)       \* RAND_bytes fails in create_token
       \/ \E rnd \in Rnd16 :
            LET tok == create_token(a_key, rnd)
                a1  == [a_key EXCEPT !.m_token_serial_number = next_token_serial(a_key)]
                \* create_and_upload_session_packet called initialize_iv
                a2  == initialize_iv(a1)
                o1  == [obs EXCEPT !.last_token = tok]
                sent1(o) == carried_iv([o EXCEPT !.sent = @ + 1], a1)
                receive(reply) ==
                    session_received(call, tok,
                        download_response(a2, cleared_response, reply,
                                          get_resp_packet_payload_size(a2, 1)))
            IN
            \/ fail(a1) /\ obs' = faulted(o1)      \* AAD, key or MAC fails
            \/ uses_aes(a1) /\ fail(a2) /\ obs' = faulted(o1)   \* the IV is made,
                                                   \* get_iv or RSA fails
            \/ fail(a2) /\ obs' = faulted(sent1(o1))   \* send_data fails
            \/ /\ CanFault
               /\ \E f \in ReplyFaults(a2) :
                    call' = receive(faulty_reply(a2, tok, obs.last_token, 1, f))
               /\ api' = a2
               /\ obs' = faulted(sent1(o1))
            \/ /\ \E status \in {0, 1} :
                    /\ status = 0 \/ CanFault
                    /\ call' = receive(good_reply(a2, tok, 1, "none", status))
                    /\ obs' = IF status = 0 THEN sent1(o1) ELSE faulted(sent1(o1))
               /\ api' = a2

\* a check of the handshake response that leaves the status byte out
session_accepted_any_status(c) ==
    /\ c.accepted
    /\ c.token = c.resp.token
    /\ c.resp.payload_size = 1

\* the checks of upload_session_key on the response: its token, its
\* payload size and the status byte
session_accepted(c) ==
    /\ c.accepted
    /\ c.token = c.resp.token
    /\ c.resp.payload_size = 1
    /\ c.resp.payload.status = 0

\* upload_session_key after download_response, then connect_internal up to
\* the first attempt of retrieve_device_info
session_ret ==
    /\ call.pc = "session_ret"
    /\ ht' = ht
    /\ \/ /\ ~session_accepted(call)
          /\ api' = connect_attempt_failed(api, call).api
          /\ call' = connect_attempt_failed(api, call).call
          /\ obs' = obs
       \/ /\ session_accepted(call)            \* the fast timeout cannot be set
          /\ CanFault
          /\ api' = connect_attempt_failed(api, call).api
          /\ call' = connect_attempt_failed(api, call).call
          /\ obs' = faulted(obs)
       \/ /\ session_accepted(call)
          /\ api' = api
          /\ call' = [call EXCEPT !.pc = "exec", !.tries = 0, !.i = 0,
                                  !.expected = SizeofDeviceInfo,
                                  !.resp = cleared_response,
                                  !.token = NoToken, !.accepted = FALSE,
                                  !.sess_token = call.token,
                                  !.sess_resp = call.resp]
          /\ obs' = [obs EXCEPT !.sends = <<0, 0>>]

(***************************************************************************)
(* The no-cipher path: get_unpacked_bytes_with_retry, get_unpacked_bytes   *)
(* and get_payload_bytes_with_retry                                        *)
(***************************************************************************)
\* one pass of the loop of get_payload_bytes_with_retry: the one-byte
\* command is sent and block_size_bytes + 1 bytes are read
payload_try ==
    /\ call.pc = "payload_try"
    /\ UNCHANGED <<api, ht>>
    /\ \/ /\ CanFault                 \* send_data fails, or receive_data does
          /\ call' = [call EXCEPT !.pc = "payload_ret", !.ok = FALSE]
          /\ obs' = faulted(transmitted(obs, call.i))
       \/ \E g \in GoodPayloads(call) :
            /\ g = NormalPayload(call) \/ CanFault
            /\ call' = [call EXCEPT !.pc = "payload_ret", !.ok = TRUE,
                                    !.resp.payload = [data |-> g[1], status |-> g[2],
                                                      size |-> call.expected]]
            /\ obs' = counted(transmitted(obs, call.i), call, g)

\* get_unpacked_bytes_with_retry after get_unpacked_bytes returned false:
\* sleep, clear_receiver, and get_unpacked_bytes again if a try is left
unpacked_failed(c, h) ==
    IF another_try(c.outer_tries + 1)
    THEN [call |-> at_block([c EXCEPT !.outer_tries = @ + 1], 0),
          ht |-> block_prologue(h, c.test_data, 0)]
    ELSE [call |-> done(c, FALSE), ht |-> h]

\* get_payload_bytes_with_retry after a pass, and get_unpacked_bytes once
\* it returns
payload_ret ==
    /\ call.pc = "payload_ret"
    /\ IF ~call.ok
       THEN /\ api' = [api EXCEPT !.m_op_retry_count = @ + 1]
            /\ obs' = obs
            /\ IF another_try(call.tries + 1)
               THEN /\ call' = [call EXCEPT !.tries = @ + 1, !.pc = "payload_try"]
                    /\ ht' = ht
               ELSE /\ call' = unpacked_failed(call, ht).call
                    /\ ht' = unpacked_failed(call, ht).ht
       ELSE \E b \in {process_block(call, ht, call.resp.payload)} :
            LET c1 == [call EXCEPT !.out = b.out]
            IN  /\ api' = api
                /\ obs' = noted(obs, b.verdict)
                /\ IF b.verdict # "ok"
                   THEN /\ call' = unpacked_failed(c1, b.ht).call
                        /\ ht' = unpacked_failed(c1, b.ht).ht
                   ELSE IF call.i + 1 < NumBlocks(call)
                   THEN /\ call' = at_block(c1, call.i + 1)
                        /\ ht' = block_prologue(b.ht, call.test_data, call.i + 1)
                   ELSE call' = done(c1, TRUE) /\ ht' = b.ht

\* the wall clock advances; create_token is its only reader
Tick ==
    /\ call.pc \in {"idle", "connect_try", "exec"}
    /\ api.now < MaxTime
    /\ CanFault
    /\ api' = [api EXCEPT !.now = @ + 1]
    /\ obs' = faulted(obs)
    /\ UNCHANGED <<ht, call>>

Next ==
    \/ connect \/ disconnect
    \/ get_noise_source_1 \/ get_noise_source_2 \/ get_entropy \/ get_noise
    \/ get_test_data
    \/ retrieve_rng_status \/ run_health_test \/ retrieve_frequency_tables
    \/ retrieve_device_id
    \/ connect_try \/ session_ret \/ exec \/ exec_ret
    \/ payload_try \/ payload_ret
    \/ Return \/ Tick

Spec == Init /\ [][Next]_vars

(***************************************************************************)
(* execute_command driven directly, with any payload size in the command,  *)
(* on an instance that connects as in Spec.                                *)
(***************************************************************************)
CommandPayloadSizes ==
    {0, SizeofCommandPayload, SizeofCommandPayload + 1, TwoTo16 - 1}

ExecuteCommand ==
    \E cmd_payload_size \in CommandPayloadSizes :
        execute_command("execute_command", cmd_payload_size, 1)

NextCmd ==
    \/ connect \/ connect_try \/ session_ret
    \/ ExecuteCommand \/ exec \/ exec_ret
    \/ Return

SpecCmd == Init /\ [][NextCmd]_vars

(***************************************************************************)
(* The packet payload sizes, computed for an instance of any key size and  *)
(* a command or a response of any size the callers pass.                   *)
(***************************************************************************)
\* cmd_struct_size_bytes in execute_command_internal: e_mac_type, mac,
\* e_type, token, payload_size and payload_size bytes of payload
CommandStructSizes == {1 + 32 + 2 + 8 + 2 + n : n \in 0..MaxCmdPayload}

KeySizes == {KeySize_None, KeySize_k128, KeySize_k256}

InitPkt ==
    /\ ht = HealthTests_new
    /\ \E k \in KeySizes :
         api = api_new([e_mac_type |-> MacType_hmacSha256, e_aes_key_size |-> k])
    /\ \E n \in CommandStructSizes :
         call = [pc |-> "idle", op |-> "none", n |-> n, packet_size |-> 0]
    /\ obs = obs_new

GetCmdPacketPayloadSize ==
    /\ call.pc = "idle"
    /\ call' = [call EXCEPT !.pc = "done", !.op = "get_cmd_packet_payload_size",
                            !.packet_size = get_cmd_packet_payload_size(api, call.n)]
    /\ UNCHANGED <<ht, api, obs>>

GetRespPacketPayloadSize ==
    /\ call.pc = "idle"
    /\ call' = [call EXCEPT !.pc = "done", !.op = "get_resp_packet_payload_size",
                            !.packet_size = get_resp_packet_payload_size(api, call.n)]
    /\ UNCHANGED <<ht, api, obs>>

NextPkt == GetCmdPacketPayloadSize \/ GetRespPacketPayloadSize

SpecPkt == InitPkt /\ [][NextPkt]_vars

(***************************************************************************)
(* The device lock.  Several UsbSerialDevice objects (of one process or of *)
(* several) connect to and disconnect from device paths; each step is one  *)
(* system call of connect(), so the calls of different objects interleave. *)
(* The kernel's flock state is obs.holder: for each device path the object *)
(* whose open file holds the exclusive lock, or 0.  A call's return value  *)
(* is call[i].result (0 none yet, 1 true, 2 false).                        *)
(***************************************************************************)
Instances == {1, 2}
DevicePaths == {1, 2}

\* UsbSerialDevice::UsbSerialDevice (m_lock is first written by connect)
UsbSerialDevice_new == [m_device_connected |-> FALSE, m_fd |-> 0 - 1, m_lock |-> 0 - 1]

InitLock ==
    /\ ht = HealthTests_new
    /\ api = [i \in Instances |-> UsbSerialDevice_new]
    /\ call = [i \in Instances |-> [pc |-> "idle", path |-> 0, result |-> 0]]
    /\ obs = [holder |-> [p \in DevicePaths |-> 0]]

\* flock(fd, LOCK_EX | LOCK_NB) by object i on its open file of path p:
\* 0 and the lock if no other open file holds it, else -1
flock_ex_nb(holder, p, i) ==
    IF holder[p] \in {0, i}
    THEN [ret |-> 0, holder |-> [holder EXCEPT ![p] = i]]
    ELSE [ret |-> 0 - 1, holder |-> holder]

\* close(fd), and flock(fd, LOCK_UN): the lock of the open file goes with it
released(holder, p, i) ==
    IF holder[p] = i THEN [holder EXCEPT ![p] = 0] ELSE holder

\* a connect() that goes on whatever flock returned
lock_refused_never(m_lock) == FALSE

\* if (this->m_lock != 0)
lock_refused(m_lock) == m_lock # 0

returned(c, r) == [c EXCEPT !.pc = "idle", !.result = IF r THEN 1 ELSE 2]

\* connect(device_path_name) up to open(): false at once when connected
UsbConnect(i) ==
    /\ call[i].pc = "idle"
    /\ \E p \in DevicePaths :
          IF api[i].m_device_connected
          THEN call' = [call EXCEPT ![i] = returned(@, FALSE)]
          ELSE call' = [call EXCEPT ![i] = [@ EXCEPT !.pc = "open", !.path = p]]
    /\ UNCHANGED <<ht, api, obs>>

\* open(): a descriptor of the path, or -1 and connect returns false
UsbOpen(i) ==
    /\ call[i].pc = "open"
    /\ \/ /\ api' = [api EXCEPT ![i].m_fd = call[i].path]
          /\ call' = [call EXCEPT ![i].pc = "flock"]
       \/ /\ api' = [api EXCEPT ![i].m_fd = 0 - 1]
          /\ call' = [call EXCEPT ![i] = returned(@, FALSE)]
    /\ UNCHANGED <<ht, obs>>

\* flock(); where it is refused, close() and connect returns false
UsbFlock(i) ==
    /\ call[i].pc = "flock"
    /\ LET r == flock_ex_nb(obs.holder, api[i].m_fd, i) IN
       /\ api' = [api EXCEPT ![i].m_lock = r.ret]
       /\ IF lock_refused(r.ret)
          THEN /\ obs' = [obs EXCEPT !.holder = released(r.holder, api[i].m_fd, i)]
               /\ call' = [call EXCEPT ![i] = returned(@, FALSE)]
          ELSE /\ obs' = [obs EXCEPT !.holder = r.holder]
               /\ call' = [call EXCEPT ![i].pc = "config"]
    /\ ht' = ht

\* purge_comm_data, tcgetattr, set_connection_timeout: connected, or
\* close() and connect returns false
UsbConfigure(i) ==
    /\ call[i].pc = "config"
    /\ \/ /\ api' = [api EXCEPT ![i].m_device_connected = TRUE]
          /\ call' = [call EXCEPT ![i] = returned(@, TRUE)]
          /\ obs' = obs
       \/ /\ api' = api
          /\ call' = [call EXCEPT ![i] = returned(@, FALSE)]
          /\ obs' = [obs EXCEPT !.holder = released(@, api[i].m_fd, i)]
    /\ ht' = ht

\* UsbSerialDevice::disconnect
UsbDisconnect(i) ==
    /\ call[i].pc = "idle"
    /\ IF ~api[i].m_device_connected
       THEN /\ call' = [call EXCEPT ![i] = returned(@, FALSE)]
            /\ UNCHANGED <<api, obs>>
       ELSE /\ obs' = [obs EXCEPT !.holder = released(@, api[i].m_fd, i)]
            /\ api' = [api EXCEPT ![i].m_device_connected = FALSE]
            /\ call' = [call EXCEPT ![i] = returned(@, TRUE)]
    /\ ht' = ht

NextLock ==
    \E i \in Instances :
        \/ UsbConnect(i)
        \/ UsbOpen(i)
        \/ UsbFlock(i)
        \/ UsbConfigure(i)
        \/ UsbDisconnect(i)

SpecLock == InitLock /\ [][NextLock]_vars

(***************************************************************************)
(* Key material and the memory it is kept in.  An AlphaRngApi with AES and *)
(* a MAC configured is constructed, makes session keys and IVs, and is     *)
(* destroyed.  Each secret made (AES key, MAC key, IV) gets the next       *)
(* number; obs.released holds what the memory blocks given back to the     *)
(* allocator contained when they were given back.                          *)
(***************************************************************************)
MaxSecrets == 9

\* ~AesCryptor and operator delete: the m_key array, and the object with
\* its m_iv (written once initialize_iv has run), are released as they are
AesCryptor_destroy(a) ==
    {[kind |-> "aes_key", id |-> a.m_aes_key]}
    \cup (IF a.m_iv # 0 THEN {[kind |-> "iv", id |-> a.m_iv]} ELSE {})

\* ~HmacMD5, ~HmacSha256: the m_key array is released as it is
Hmac_destroy(a) == {[kind |-> "mac_key", id |-> a.m_hmac_key]}

\* AlphaRngApi::initialize: initialize_aes and initialize_hmac make the
\* cipher and the MAC objects, each with a new random key
AlphaRngApi_new(n) ==
    [alive |-> TRUE, m_aes_key |-> n + 1, m_hmac_key |-> n + 2, m_iv |-> 0]

InitMem ==
    /\ ht = HealthTests_new
    /\ api = AlphaRngApi_new(0)
    /\ call = [pc |-> "idle"]
    /\ obs = [released |-> {}, secrets |-> 2]

MemConstruct ==
    /\ ~api.alive
    /\ obs.secrets + 2 <= MaxSecrets
    /\ api' = AlphaRngApi_new(obs.secrets)
    /\ obs' = [obs EXCEPT !.secrets = @ + 2]
    /\ UNCHANGED <<ht, call>>

\* upload_session_key: generate_new_key writes a new MAC key into m_key,
\* initialize_aes deletes the cryptor and makes a new one
MemSessionKey ==
    /\ api.alive
    /\ obs.secrets + 2 <= MaxSecrets
    /\ api' = [api EXCEPT !.m_hmac_key = obs.secrets + 1,
                          !.m_aes_key = obs.secrets + 2,
                          !.m_iv = 0]
    /\ obs' = [obs EXCEPT !.secrets = @ + 2,
                          !.released = @ \cup AesCryptor_destroy(api)]
    /\ UNCHANGED <<ht, call>>

\* AesCryptor::initialize_iv writes a new IV into m_iv
MemInitializeIv ==
    /\ api.alive
    /\ obs.secrets + 1 <= MaxSecrets
    /\ api' = [api EXCEPT !.m_iv = obs.secrets + 1]
    /\ obs' = [obs EXCEPT !.secrets = @ + 1]
    /\ UNCHANGED <<ht, call>>

\* ~AlphaRngApi: delete m_hmac, delete m_aes_cryptor
MemDestroy ==
    /\ api.alive
    /\ api' = [api EXCEPT !.alive = FALSE]
    /\ obs' = [obs EXCEPT !.released =
                              @ \cup Hmac_destroy(api) \cup AesCryptor_destroy(api)]
    /\ UNCHANGED <<ht, call>>

NextMem == MemConstruct \/ MemSessionKey \/ MemInitializeIv \/ MemDestroy

SpecMem == InitMem /\ [][NextMem]_vars

(***************************************************************************)
(* to_file: num_bytes of device data written to a file through the buffer  *)
(* m_file_buffer.  obs.file is the file as the sizes of the chunks written *)
(* to it since it was opened; a read of the device (get_data) and every    *)
(* operation on the file can fail.                                         *)
(***************************************************************************)
MaxChunks == 2
c_file_output_buff_size_bytes == 100000

\* c_max_file_ouput_bytes, 200000000000, in buffers of 100000 bytes
c_max_file_ouput_buffers == 2000000

\* num_bytes > c_max_file_ouput_bytes
over_file_limit(num_bytes) ==
    \/ num_bytes \div c_file_output_buff_size_bytes > c_max_file_ouput_buffers
    \/ /\ num_bytes \div c_file_output_buff_size_bytes = c_max_file_ouput_buffers
       /\ num_bytes % c_file_output_buff_size_bytes > 0

\* a count of remaining bytes that is always 0
num_remaining_bytes_none(num_bytes) == 0

\* num_bytes % c_file_output_buff_size_bytes
num_remaining_bytes(num_bytes) == num_bytes % c_file_output_buff_size_bytes

num_chunks(num_bytes) == num_bytes \div c_file_output_buff_size_bytes

FileLengths ==
    {0 - 1, 0, 1, PartialBytes,
     c_file_output_buff_size_bytes - 1, c_file_output_buff_size_bytes,
     c_file_output_buff_size_bytes + 1,
     MaxChunks * c_file_output_buff_size_bytes,
     MaxChunks * c_file_output_buff_size_bytes + PartialBytes}

InitFile ==
    /\ ht = HealthTests_new
    /\ api = [m_file_buffer |-> FALSE]
    /\ call = [pc |-> "idle", num_bytes |-> 0, i |-> 0, result |-> FALSE]
    /\ obs = [file |-> <<>>, read_failed |-> FALSE, calls |-> 0]

\* to_file up to its loops: the checks on num_bytes, the buffer, the file
\* opened for output (and so emptied)
to_file ==
    /\ call.pc = "idle"
    /\ obs.calls < MaxCalls
    /\ \E num_bytes \in FileLengths :
         LET c == [call EXCEPT !.num_bytes = num_bytes, !.i = 0]
             o == [obs EXCEPT !.calls = @ + 1, !.read_failed = FALSE]
         IN
         IF num_bytes < 0 \/ over_file_limit(num_bytes)
         THEN /\ call' = [c EXCEPT !.pc = "done", !.result = FALSE]
              /\ UNCHANGED api /\ obs' = o
         ELSE \/ /\ ~api.m_file_buffer           \* new (nothrow) gives nullptr
                 /\ call' = [c EXCEPT !.pc = "done", !.result = FALSE]
                 /\ UNCHANGED api /\ obs' = o
              \/ /\ api' = [api EXCEPT !.m_file_buffer = TRUE]
                 /\ \/ /\ call' = [c EXCEPT !.pc = "done", !.result = FALSE]
                       /\ obs' = o               \* the file does not open
                    \/ /\ call' = [c EXCEPT !.pc = "chunk"]
                       /\ obs' = [o EXCEPT !.file = <<>>]
    /\ ht' = ht

\* one pass of a loop of to_file: get_data into the buffer, then the write
\* of the buffer.  num_bytes = 0 is the loop that only a failure ends.
to_file_chunk ==
    /\ call.pc = "chunk"
    /\ call.num_bytes = 0 \/ call.i < num_chunks(call.num_bytes)
    /\ Len(obs.file) <= MaxChunks
    /\ \/ /\ call' = [call EXCEPT !.pc = "done", !.result = FALSE]  \* get_data fails
          /\ obs' = [obs EXCEPT !.read_failed = TRUE]
       \/ /\ call' = [call EXCEPT !.pc = "done", !.result = FALSE]  \* the write fails
          /\ obs' = obs
       \/ /\ call' = [call EXCEPT !.i = @ + 1]
          /\ obs' = [obs EXCEPT !.file = Append(@, c_file_output_buff_size_bytes)]
    /\ UNCHANGED <<ht, api>>

\* the bytes after the last whole buffer, then the close of the file
to_file_remainder ==
    /\ call.pc = "chunk"
    /\ call.num_bytes # 0 /\ call.i >= num_chunks(call.num_bytes)
    /\ LET n == num_remaining_bytes(call.num_bytes) IN
       IF n # 0
       THEN \/ /\ call' = [call EXCEPT !.pc = "done", !.result = FALSE]  \* get_data fails
               /\ obs' = [obs EXCEPT !.read_failed = TRUE]
            \/ /\ call' = [call EXCEPT !.pc = "done", !.result = FALSE]  \* the write fails
               /\ obs' = obs
            \/ /\ \E closed \in BOOLEAN : call' = [call EXCEPT !.pc = "done", !.result = closed]
               /\ obs' = [obs EXCEPT !.file = Append(@, n)]
       ELSE /\ \E closed \in BOOLEAN : call' = [call EXCEPT !.pc = "done", !.result = closed]
            /\ obs' = obs
    /\ UNCHANGED <<ht, api>>

FileReturn ==
    /\ call.pc = "done"
    /\ call' = [call EXCEPT !.pc = "idle"]
    /\ UNCHANGED <<ht, api, obs>>

NextFile == to_file \/ to_file_chunk \/ to_file_remainder \/ FileReturn

SpecFile == InitFile /\ [][NextFile]_vars

(***************************************************************************)
(* The Session record of the handshake: connect_internal makes the keys    *)
(* of the session and upload_session_key lays them out in the record.      *)
(* Variables: api is the instance (its configuration, the key of the       *)
(* cipher object, the key of the MAC object), obs.sent is the Session      *)
(* record last handed to create_and_upload_session_packet.                 *)
(***************************************************************************)
\* values of the bytes RAND_bytes gives a key; the bytes of one key are
\* drawn alike
KeyBytes == {0, 1, 255}

SizeofSessionKey == 32
SessionKeyType_aes == 1

random_key(n, b) == [i \in 1 .. n |-> b]

\* memcpy(out, in, n) into a field of the record
memcpy(out, in, n) == [i \in 1 .. Len(out) |-> IF i <= n THEN in[i] ELSE out[i]]

\* initialize_hmac: the MAC object for a MAC type, by the size of its key;
\* MacType::None falls to the default label and gets an HmacSha256
hmac_key_size(e_mac_type) ==
    IF e_mac_type = MacType_hmacMD5 THEN 16 ELSE 32

\* memset(&sess, 0x00, sizeof(sess))
zero_session ==
    [e_type |-> 0, e_size |-> 0, key |-> random_key(SizeofSessionKey, 0),
     e_mac_type |-> 0, mac_key |-> random_key(SizeofSessionKey, 0)]

\* upload_session_key up to create_and_upload_session_packet: the fields
\* of sess that hold keys and their kinds
session_record(a) ==
    LET sess0 == [zero_session EXCEPT !.e_type = SessionKeyType_aes,
                                      !.e_size = a.m_cfg.e_aes_key_size,
                                      !.e_mac_type = a.m_cfg.e_mac_type]
        sess1 == IF a.m_cfg.e_aes_key_size # KeySize_None
                 THEN [sess0 EXCEPT !.key = memcpy(@, a.m_key, Len(a.m_key))]
                 ELSE sess0
    IN  [sess1 EXCEPT !.mac_key = memcpy(@, a.m_hmac_key, Len(a.m_hmac_key))]

\* AlphaRngApi::initialize: initialize_aes makes a cryptor with a random key
\* unless the key size is None, initialize_hmac makes the MAC object with a
\* random key
InitSess ==
    /\ ht = HealthTests_new
    /\ \E k \in KeySizes, m \in {MacType_None, MacType_hmacMD5, MacType_hmacSha256},
          kb \in KeyBytes, mb \in KeyBytes :
          api = [m_cfg |-> [e_mac_type |-> m, e_aes_key_size |-> k],
                 m_key |-> random_key(k, kb),
                 m_hmac_key |-> random_key(hmac_key_size(m), mb)]
    /\ call = [pc |-> "idle"]
    /\ obs = [sessions |-> 0, sent |-> zero_session]

\* connect_internal: a new MAC key unless the MAC type is None, a new cryptor
\* with a new key unless the key size is None, then upload_session_key
SessConnect ==
    /\ \E kb \in KeyBytes, mb \in KeyBytes :
         LET a1 == IF api.m_cfg.e_mac_type # MacType_None
                   THEN [api EXCEPT !.m_hmac_key = random_key(Len(@), mb)]
                   ELSE api
             a2 == IF a1.m_cfg.e_aes_key_size # KeySize_None
                   THEN [a1 EXCEPT !.m_key = random_key(a1.m_cfg.e_aes_key_size, kb)]
                   ELSE a1
         IN  /\ api' = a2
             /\ obs' = [sessions |-> 1, sent |-> session_record(a2)]
    /\ UNCHANGED <<ht, call>>

NextSess == SessConnect

SpecSess == InitSess /\ [][NextSess]_vars

(***************************************************************************)
(* clear_receiver and the loops that call it.  The device is a process of  *)
(* its own: it puts bytes on the serial line while the host reads.         *)
(* Variables: api.connected is is_connected() of the device object; call   *)
(* is the position of connect or execute_command (pc, tries), the bytes    *)
(* the receive_data call of clear_receiver has so far (got), the buffers   *)
(* it filled (full) and where clear_receiver returns to (ret); obs.line is *)
(* the bytes waiting on the line, obs.budget the bytes the device will     *)
(* still send before it falls silent.                                      *)
(***************************************************************************)
\* the most bytes the device sends after a request
MaxDeviceBytes == 256
\* sizeof(clear_buffer) in clear_receiver
SizeofClearBuffer == 128
\* bytes the device puts on the line at once, and the most one read() takes
\* of them
Bursts == {32, 128}

\* read(m_fd, rcv + actual_bytes_received, size_receive - actual_bytes_received):
\* 0 when the timeout passes with nothing on the line, else some of the
\* bytes waiting, at most the bytes asked for
read_counts(line, want) ==
    IF line = 0 THEN {0}
    ELSE {IF k <= line THEN k ELSE line :
              k \in {IF n <= want THEN n ELSE want : n \in Bursts}}

\* a clear_receiver that stays in its loop whatever receive_data returns
drained_never(status) == FALSE

\* while (!m_device->receive_data(...)) ; ends on a status other than 0
drained(status) == status # 0

InitDrain ==
    /\ ht = HealthTests_new
    /\ api = [connected |-> FALSE]
    /\ call = [pc |-> "idle", op |-> "connect", tries |-> 0, got |-> 0,
               full |-> 0, ret |-> "retry", result |-> FALSE]
    /\ obs = [line |-> 0, budget |-> 0]

\* the device puts a burst on the line
DeviceSends ==
    /\ \E n \in Bursts :
         /\ n <= obs.budget
         /\ obs' = [line |-> obs.line + n, budget |-> obs.budget - n]
    /\ UNCHANGED <<ht, api, call>>

\* connect or execute_command is called; what the host sends lets the
\* device answer with up to MaxDeviceBytes bytes in all
DrainCall ==
    /\ call.pc = "idle"
    /\ \E op \in {"connect"} \cup (IF api.connected THEN {"execute_command"} ELSE {}) :
         call' = [call EXCEPT !.pc = "try", !.op = op, !.tries = 0,
                              !.got = 0, !.full = 0]
    /\ obs' = [obs EXCEPT !.budget = MaxDeviceBytes - obs.line]
    /\ UNCHANGED <<ht, api>>

\* clear_receiver is entered
enter_clear_receiver(c, ret) ==
    [c EXCEPT !.pc = "clear_receiver", !.ret = ret, !.got = 0, !.full = 0]

\* one pass of the loop of execute_command, or of connect up to the
\* clear_receiver of connect_internal
DrainTry ==
    /\ call.pc = "try"
    /\ ht' = ht
    /\ IF call.op = "execute_command"
       THEN /\ api' = api
            /\ \E used \in {0, obs.line} :
                 obs' = [obs EXCEPT !.line = @ - used]
            /\ \/ call' = [call EXCEPT !.pc = "idle", !.result = TRUE]
               \/ call' = enter_clear_receiver(call, "retry")
       ELSE /\ obs' = obs
            /\ \/ /\ api' = [api EXCEPT !.connected = FALSE]
                  /\ call' = enter_clear_receiver(call, "retry")
               \/ /\ api' = [api EXCEPT !.connected = TRUE]
                  /\ call' = enter_clear_receiver(call, "connect_internal")

\* connect_internal after its clear_receiver: the session key is uploaded
\* and the device information retrieved, or one of them fails
DrainSession ==
    /\ call.pc = "session"
    /\ \E used \in {0, obs.line} :
         obs' = [obs EXCEPT !.line = @ - used]
    /\ \/ call' = [call EXCEPT !.pc = "idle", !.result = TRUE]
       \/ call' = enter_clear_receiver(call, "retry")
    /\ UNCHANGED <<ht, api>>

\* clear_receiver returns: into connect_internal, or to the end of a pass
\* of the loop of connect or execute_command
leave_clear_receiver(c) ==
    IF c.ret = "connect_internal" THEN [c EXCEPT !.pc = "session"]
    ELSE IF another_try(c.tries + 1)
    THEN [c EXCEPT !.pc = "try", !.tries = @ + 1]
    ELSE [c EXCEPT !.pc = "idle", !.result = FALSE]

\* receive_data has returned status to the loop of clear_receiver
receive_data_returned(c, status) ==
    IF drained(status) THEN leave_clear_receiver(c)
    ELSE [c EXCEPT !.got = 0, !.full = @ + 1]

\* one read() of the receive_data call of clear_receiver
DrainRead ==
    /\ call.pc = "clear_receiver"
    /\ UNCHANGED <<ht, api>>
    /\ IF ~api.connected
       THEN /\ call' = receive_data_returned(call, -1)
            /\ obs' = obs
       ELSE \/ /\ call' = receive_data_returned(call, -1)     \* read fails
               /\ obs' = obs
            \/ \E k \in read_counts(obs.line, SizeofClearBuffer - call.got) :
                 /\ obs' = [obs EXCEPT !.line = @ - k]
                 /\ call' = IF k = 0 THEN receive_data_returned(call, -7)
                            ELSE IF call.got + k = SizeofClearBuffer
                            THEN receive_data_returned(call, 0)
                            ELSE [call EXCEPT !.got = @ + k]

HostStep == DrainCall \/ DrainTry \/ DrainSession \/ DrainRead

NextDrain == DeviceSends \/ DrainCall \/ DrainTry \/ DrainSession \/ DrainRead

\* the host is a sequential program: a call that can take its next step
\* takes it; nothing is asked of the device
SpecDrain == InitDrain /\ [][NextDrain]_vars /\ WF_vars(HostStep)

(***************************************************************************)
(* The kernel module alrandom: init_alrandom loads it, user processes call *)
(* device_read on the character device, the driver thread serves them.     *)
(* Variables: api is the module's shared state (what init_alrandom has     *)
(* set up so far, the holder of dataOpLock, the fields of threadData and   *)
(* the done counts of its two completions), ht is the driver thread, call  *)
(* holds one record per reader, obs the position of init_alrandom, the     *)
(* requests made so far and whether an object was used before it was       *)
(* initialised.  Each request carries a number (req) that the model tracks *)
(* through threadData to tell whose result a status is.                    *)
(***************************************************************************)
MaxRequests == 3
MAX_BYTES_USER_CAN_REQUEST == 100000
ETIMEDOUT == 110
EBUSY == 16
ENODATA == 61
EFAULT == 14

Readers == {1, 2}
ReadLengths == {10, 100000, 100001}

reader_idle ==
    [pc |-> "idle", length |-> 0, req |-> 0, retval |-> 0, copied |-> 0,
     woken |-> FALSE, status_req |-> 0]

InitKmod ==
    /\ api = [chardev |-> FALSE, threadData |-> FALSE, completions |-> FALSE,
              mutex |-> FALSE, lock |-> 0, command |-> "none", status |-> 0,
              status_req |-> 0, k_length |-> 0, req |-> 0,
              to_done |-> 0, from_done |-> 0]
    /\ ht = [pc |-> "none", k_length |-> 0, req |-> 0]
    /\ call = [r \in Readers |-> reader_idle]
    /\ obs = [init_pc |-> "init_char_dev", reqs |-> 0, touched |-> FALSE]

\* init_alrandom, one step per object it sets up, in the order of the code:
\* init_char_dev, kzalloc of threadData, kthread_run, the two
\* init_completion calls, mutex_init
init_alrandom ==
    /\ call' = call
    /\ \/ /\ obs.init_pc = "init_char_dev"
          /\ api' = [api EXCEPT !.chardev = TRUE]
          /\ obs' = [obs EXCEPT !.init_pc = "kzalloc"]
          /\ ht' = ht
       \/ /\ obs.init_pc = "kzalloc"
          /\ api' = [api EXCEPT !.threadData = TRUE]
          /\ obs' = [obs EXCEPT !.init_pc = "kthread_run"]
          /\ ht' = ht
       \/ /\ obs.init_pc = "kthread_run"
          /\ api' = api
          /\ obs' = [obs EXCEPT !.init_pc = "init_completion"]
          /\ ht' = [ht EXCEPT !.pc = "wait"]
       \/ /\ obs.init_pc = "init_completion"
          /\ api' = [api EXCEPT !.completions = TRUE, !.to_done = 0,
                                !.from_done = 0]
          /\ obs' = [obs EXCEPT !.init_pc = "mutex_init"]
          /\ ht' = ht
       \/ /\ obs.init_pc = "mutex_init"
          /\ api' = [api EXCEPT !.mutex = TRUE, !.lock = 0]
          /\ obs' = [obs EXCEPT !.init_pc = "loaded"]
          /\ ht' = ht

\* threadData->k_length for a requested length
k_length_for(length) ==
    IF length > MAX_BYTES_USER_CAN_REQUEST THEN MAX_BYTES_USER_CAN_REQUEST
    ELSE length

\* mutex_unlock(&dataOpLock) and return retval
device_read_return(rd, retval, copied, woken, status_req) ==
    [rd EXCEPT !.pc = "idle", !.retval = retval, !.copied = copied,
               !.woken = woken, !.status_req = status_req]

\* device_read from its entry to wait_for_completion_timeout: the lock is
\* taken, the request written into threadData and the thread signalled.
\* A NULL threadData ends the reader in an oops with the lock held.
device_read(r) ==
    /\ call[r].pc = "idle"
    /\ api.chardev
    /\ obs.reqs < MaxRequests
    /\ api.lock = 0
    /\ ht' = ht
    /\ \E length \in ReadLengths :
         LET rd == [reader_idle EXCEPT !.length = length, !.req = obs.reqs + 1]
             o1 == [obs EXCEPT !.reqs = @ + 1,
                               !.touched = @ \/ ~api.mutex \/ ~api.threadData
                                             \/ ~api.completions]
         IN  /\ obs' = o1
             /\ IF ~api.threadData
                THEN /\ api' = [api EXCEPT !.lock = r]
                     /\ call' = [call EXCEPT ![r] = [rd EXCEPT !.pc = "oops"]]
                ELSE LET a1 == [api EXCEPT !.command = "r",
                                           !.status = -ETIMEDOUT,
                                           !.status_req = 0,
                                           !.k_length = k_length_for(length),
                                           !.req = rd.req]
                     IN  IF a1.to_done = 0
                         THEN /\ api' = [a1 EXCEPT !.lock = r, !.to_done = 1]
                              /\ call' = [call EXCEPT ![r] = [rd EXCEPT !.pc = "wait"]]
                         ELSE /\ api' = a1
                              /\ call' = [call EXCEPT ![r] =
                                     device_read_return(rd, -EBUSY, 0, FALSE, 0)]

\* the bytes copy_to_user copies for a status, and the value returned
copy_to_user(status) ==
    IF status > 0 /\ status <= MAX_BYTES_USER_CAN_REQUEST THEN status ELSE 0

retval_for(status) ==
    IF status > MAX_BYTES_USER_CAN_REQUEST THEN -EFAULT ELSE status

\* wait_for_completion_timeout(&threadData->from_thread_event, 5 s) returns:
\* the event was there, or 5 seconds passed while the thread did not wait
\* for a request
device_read_woken(r) ==
    /\ call[r].pc = "wait"
    /\ UNCHANGED <<ht, obs>>
    /\ IF api.from_done > 0
       THEN /\ api' = [api EXCEPT !.from_done = @ - 1, !.lock = 0]
            /\ call' = [call EXCEPT ![r] =
                   device_read_return(@, retval_for(api.status),
                                      copy_to_user(api.status), TRUE,
                                      api.status_req)]
       ELSE /\ ht.pc # "wait"
            /\ api' = [api EXCEPT !.lock = 0]
            /\ call' = [call EXCEPT ![r] =
                   device_read_return(@, -ETIMEDOUT, 0, FALSE, 0)]

\* thread_function: wait_for_completion_timeout(&threadData->to_thread_event)
\* returns with the event and command 'r' starts thread_device_read with
\* the k_length of that moment
thread_function ==
    /\ ht.pc = "wait"
    /\ api.to_done > 0
    /\ api.command = "r"
    /\ api' = [api EXCEPT !.to_done = @ - 1]
    /\ ht' = [pc |-> "work", k_length |-> api.k_length, req |-> api.req]
    /\ obs' = [obs EXCEPT !.touched = @ \/ ~api.completions]
    /\ call' = call

\* thread_device_read returns, its value goes to threadData->status and
\* from_thread_event is completed
thread_device_read ==
    /\ ht.pc = "work"
    /\ \E status \in {ht.k_length, -ENODATA} :
         api' = [api EXCEPT !.status = status, !.status_req = ht.req,
                            !.from_done = @ + 1]
    /\ ht' = [ht EXCEPT !.pc = "wait"]
    /\ obs' = [obs EXCEPT !.touched = @ \/ ~api.completions]
    /\ call' = call

NextKmod ==
    \/ init_alrandom
    \/ \E r \in Readers : device_read(r)
    \/ \E r \in Readers : device_read_woken(r)
    \/ thread_function
    \/ thread_device_read

SpecKmod == InitKmod /\ [][NextKmod]_vars

(***************************************************************************)
(* The entropy server: EntropyServer::run serves the instances of a named  *)
(* pipe with overlapped I/O from one thread; each client talks to one      *)
(* instance.  Variables: api[p] is m_pipe[p] with the state of its event   *)
(* and of its overlapped operation (result), the bytes a client wrote that *)
(* no ReadFile took yet (inq, in DWORDs) and the reply on its way to the   *)
(* client (outq); call[p] is the client of instance p.                     *)
(***************************************************************************)
SizeofREADCMD == 8
SizeofDWORD == 4
c_write_buff_size_bytes == 100000
c_cmd_entropy_retrieve_id == 0
c_cmd_diag_id == 1
InvalidCmd == 99

Pipes == {1, 2}
\* what the client of an instance may write as its READCMD, <<cmd, cbReqData>>,
\* whole or only the first DWORD; the client of instance 2 asks for one
\* diagnostic byte
Requests(p) ==
    IF p = 1
    THEN {[w |-> <<cmd, n>>, whole |-> whole] :
              cmd \in {c_cmd_diag_id}, n \in {1, 257, 100001}, whole \in BOOLEAN}
         \cup {[w |-> <<c_cmd_entropy_retrieve_id, 1>>, whole |-> TRUE],
               [w |-> <<InvalidCmd, 1>>, whole |-> TRUE]}
    ELSE {[w |-> <<c_cmd_diag_id, 1>>, whole |-> TRUE]}
\* a diagnostic reply whose counter does not wrap
diag_bytes_nowrap(n) == [t \in 1 .. n |-> t - 1]

\* case c_cmd_diag_id: chReply[t] = testCounter++ on an unsigned char
diag_bytes(n) == [t \in 1 .. n |-> (t - 1) % 256]

\* an overlapped operation that is pending: the event is reset
pending(pi) == [pi EXCEPT !.fPendingIO = TRUE, !.event = FALSE]

\* an overlapped operation that completed at once: the event is set
completed(pi, dwState) ==
    [pi EXCEPT !.fPendingIO = FALSE, !.event = TRUE, !.dwState = dwState]

\* reconnect: DisconnectNamedPipe drops the client and what was in the
\* pipe, connect_to_new_clinet starts an overlapped ConnectNamedPipe
reconnect(pi) ==
    [pending(pi) EXCEPT !.dwState = "connecting", !.peer = FALSE,
                        !.inq = <<>>, !.outq = <<>>]

\* create_pipe_instances; what chRequest holds before the first read is
\* whatever the memory of the object held
InitPipe ==
    /\ ht = HealthTests_new
    /\ \E stale \in {<<0, 0>>, <<c_cmd_diag_id, 1>>} :
         api = [p \in Pipes |->
                  [dwState |-> "connecting", fPendingIO |-> TRUE,
                   chRequest |-> stale, cbRead |-> 0, event |-> FALSE,
                   result |-> [ok |-> FALSE, cb |-> 0], peer |-> FALSE,
                   inq |-> <<>>, outq |-> <<>>]]
    /\ call = [p \in Pipes |->
                 [pc |-> "away", cmd |-> 0, n |-> 0, whole |-> FALSE, got |-> <<>>]]
    /\ obs = [served |-> 0]

\* the DWORDs of chRequest after a read brought the words w
read_into(chRequest, w) ==
    [i \in 1 .. 2 |-> IF i <= Len(w) THEN w[i] ELSE chRequest[i]]

\* run, the part under `if (m_pipe[m_dw_idx].fPendingIO)`: the result of
\* the overlapped operation that completed; cont says that the iteration
\* ended there (reconnect; continue)
overlapped_result(pi) ==
    IF ~pi.fPendingIO THEN [pipe |-> pi, cont |-> FALSE]
    ELSE IF pi.dwState = "connecting"
    THEN [pipe |-> [pi EXCEPT !.dwState = "reading"], cont |-> FALSE]
    ELSE IF pi.dwState = "reading"
    THEN IF ~pi.result.ok \/ pi.result.cb = 0
         THEN [pipe |-> reconnect(pi), cont |-> TRUE]
         ELSE [pipe |-> [pi EXCEPT !.cbRead = pi.result.cb,
                                   !.dwState = "writing"], cont |-> FALSE]
    ELSE IF ~pi.result.ok \/ pi.result.cb # pi.chRequest[2]
         THEN [pipe |-> reconnect(pi), cont |-> TRUE]
         ELSE [pipe |-> [pi EXCEPT !.dwState = "reading"], cont |-> FALSE]

\* run, case c_reading_state: ReadFile of sizeof(READCMD) bytes
reading_state(pi) ==
    IF ~pi.peer THEN reconnect(pi)
    ELSE IF pi.inq = <<>> THEN pending(pi)
    ELSE LET p1 == [pi EXCEPT !.chRequest = read_into(@, pi.inq),
                              !.cbRead = SizeofDWORD * Len(pi.inq),
                              !.inq = <<>>]
         IN  IF p1.cbRead = SizeofREADCMD THEN completed(p1, "writing")
             ELSE reconnect(p1)

\* fill_entropy_for_write: the reply for chRequest, <<>> when it returns
\* false; device says whether the device delivered (its bytes are written
\* as 170)
fill_entropy_for_write(chRequest, device) ==
    IF chRequest[2] = 0 \/ chRequest[2] > c_write_buff_size_bytes THEN <<>>
    ELSE IF chRequest[1] = c_cmd_entropy_retrieve_id
    THEN IF device THEN [t \in 1 .. chRequest[2] |-> 170] ELSE <<>>
    ELSE IF chRequest[1] = c_cmd_diag_id THEN diag_bytes(chRequest[2])
    ELSE <<>>

\* run, case c_writing_state: the replies WriteFile may leave the pipe
\* with, at once or as a pending operation
writing_state(pi) ==
    { IF chReply = <<>> \/ ~pi.peer THEN reconnect(pi)
      ELSE IF sync THEN completed([pi EXCEPT !.outq = chReply], "reading")
      ELSE pending([pi EXCEPT !.outq = chReply]) :
        chReply \in {fill_entropy_for_write(pi.chRequest, d) : d \in BOOLEAN},
        sync \in BOOLEAN }

\* the client of an instance the server disconnected has lost its pipe
dropped(c, pi) == IF pi.peer THEN c ELSE [c EXCEPT !.pc = "away"]

\* one iteration of the loop of run: WaitForMultipleObjects gives the
\* lowest instance whose event is set
run ==
    /\ \E idx \in Pipes :
         /\ api[idx].event
         /\ \A q \in Pipes : api[q].event => idx <= q
         /\ LET r == overlapped_result(api[idx])
            IN  \E pi \in IF r.cont THEN {r.pipe}
                          ELSE IF r.pipe.dwState = "reading"
                          THEN {reading_state(r.pipe)}
                          ELSE writing_state(r.pipe) :
                  /\ api' = [api EXCEPT ![idx] = pi]
                  /\ call' = [call EXCEPT ![idx] = dropped(@, pi)]
    /\ UNCHANGED <<ht, obs>>

\* a client opens the pipe and gets an instance that waits for one
ClientOpen(p) ==
    /\ call[p].pc = "away"
    /\ api[p].dwState = "connecting" /\ api[p].fPendingIO /\ ~api[p].event
    /\ api' = [api EXCEPT ![p].event = TRUE, ![p].peer = TRUE,
                          ![p].result = [ok |-> TRUE, cb |-> 0]]
    /\ call' = [call EXCEPT ![p] = [pc |-> "connected", cmd |-> 0, n |-> 0,
                                    whole |-> FALSE, got |-> <<>>]]
    /\ UNCHANGED <<ht, obs>>

\* a client writes a READCMD, whole or only its first DWORD; a ReadFile
\* that is pending completes with the bytes written
ClientWrite(p) ==
    /\ call[p].pc \in {"connected", "served"}
    /\ api[p].peer
    /\ \E req \in Requests(p) :
         LET w == IF req.whole THEN req.w ELSE <<req.w[1]>> IN
         /\ call' = [call EXCEPT ![p] = [pc |-> "asked", cmd |-> req.w[1],
                                         n |-> req.w[2], whole |-> req.whole,
                                         got |-> <<>>]]
         /\ api' = IF api[p].dwState = "reading" /\ api[p].fPendingIO /\ ~api[p].event
                   THEN [api EXCEPT ![p].chRequest = read_into(@, w),
                                    ![p].event = TRUE,
                                    ![p].result = [ok |-> TRUE,
                                                   cb |-> SizeofDWORD * Len(w)]]
                   ELSE [api EXCEPT ![p].inq = w]
    /\ UNCHANGED <<ht, obs>>

\* a client reads the reply; a WriteFile that is pending completes
ClientRead(p) ==
    /\ call[p].pc = "asked"
    /\ api[p].peer
    /\ api[p].outq # <<>>
    /\ call' = [call EXCEPT ![p].pc = "served", ![p].got = api[p].outq]
    /\ api' = IF api[p].dwState = "writing" /\ api[p].fPendingIO /\ ~api[p].event
              THEN [api EXCEPT ![p].outq = <<>>, ![p].event = TRUE,
                               ![p].result = [ok |-> TRUE, cb |-> Len(api[p].outq)]]
              ELSE [api EXCEPT ![p].outq = <<>>]
    /\ obs' = [obs EXCEPT !.served = IF @ < 2 THEN @ + 1 ELSE @]
    /\ ht' = ht

\* a client closes its end; an operation that is pending fails
ClientClose(p) ==
    /\ call[p].pc # "away"
    /\ api[p].peer
    /\ call' = [call EXCEPT ![p].pc = "away"]
    /\ api' = IF api[p].fPendingIO /\ ~api[p].event
              THEN [api EXCEPT ![p].peer = FALSE, ![p].outq = <<>>, ![p].inq = <<>>,
                               ![p].event = TRUE,
                               ![p].result = [ok |-> FALSE, cb |-> 0]]
              ELSE [api EXCEPT ![p].peer = FALSE, ![p].outq = <<>>, ![p].inq = <<>>]
    /\ UNCHANGED <<ht, obs>>

NextPipe ==
    \/ run
    \/ \E p \in Pipes : ClientOpen(p)
    \/ \E p \in Pipes : ClientWrite(p)
    \/ \E p \in Pipes : ClientRead(p)
    \/ \E p \in Pipes : ClientClose(p)

SpecPipe == InitPipe /\ [][NextPipe]_vars

(***************************************************************************)
(* The session time-to-live.  AlphaRngApi.h declares set_session_ttl,      *)
(* m_session_count, m_expire_time_secs and m_time_to_live_mins; the        *)
(* functions that use them are written here as the specification of the    *)
(* command engine describes them.  A handshake is one step.                *)
(***************************************************************************)
SecondsPerMinute == 60
TtlMinutes == {0, 1}
ClockSteps == {30, 61}

set_session_ttl(a, time_to_live_minutes) ==
    [a EXCEPT !.m_time_to_live_mins = time_to_live_minutes]

\* the end of a successful handshake: one more session, and with a
\* non-zero TTL expire_at = now + ttl
session_begun(a) ==
    [a EXCEPT !.m_session_count = @ + 1,
              !.m_expire_time_secs =
                  IF a.m_time_to_live_mins # 0
                  THEN a.now + a.m_time_to_live_mins * SecondsPerMinute
                  ELSE @]

\* an expiry test that lets the command at expire_at itself through
rekey_due_late(a) ==
    a.m_time_to_live_mins # 0 /\ a.now > a.m_expire_time_secs

\* before each executeCommand: a non-zero TTL and now >= expire_at
rekey_due(a) ==
    a.m_time_to_live_mins # 0 /\ a.now >= a.m_expire_time_secs

\* the device opened and locked by a handshake that succeeds
handshake_done(a) ==
    session_begun([api_disconnect(a) EXCEPT !.m_device_count = 1,
                                            !.m_device_connected = TRUE,
                                            !.m_lock = TRUE])

TTLSet ==
    /\ call.pc = "idle"
    /\ \E m \in TtlMinutes : api' = set_session_ttl(api, m)
    /\ UNCHANGED <<ht, call, obs>>

TTLConnect ==
    /\ CanCall
    /\ ~is_connected(api)
    /\ obs' = begin_call(obs)
    /\ \/ api' = handshake_done(api)
       \/ api' = api_disconnect(api)
    /\ UNCHANGED <<ht, call>>

TTLDisconnect ==
    /\ CanCall
    /\ is_connected(api)
    /\ obs' = begin_call(obs)
    /\ api' = api_disconnect(api)
    /\ UNCHANGED <<ht, call>>

\* a command is issued
TTLCommand ==
    /\ CanCall
    /\ is_connected(api)
    /\ obs' = [begin_call(obs) EXCEPT
                  !.at_call = [now |-> api.now, expire |-> api.m_expire_time_secs,
                               ttl |-> api.m_time_to_live_mins,
                               count |-> api.m_session_count,
                               torn_down |-> FALSE]]
    /\ call' = [call_idle EXCEPT !.op = "ttl_command", !.pc = "ttl_check"]
    /\ UNCHANGED <<ht, api>>

\* the expiry test before the command: tear the transport down if due
TTLCheck ==
    /\ call.pc = "ttl_check"
    /\ ht' = ht
    /\ IF rekey_due(api)
       THEN /\ api' = api_disconnect(api)
            /\ obs' = [obs EXCEPT !.at_call.torn_down = TRUE]
            /\ call' = [call EXCEPT !.pc = "ttl_rekey"]
       ELSE /\ call' = [call EXCEPT !.pc = "ttl_send"]
            /\ UNCHANGED <<api, obs>>

\* connect() re-run for the rekey; the command fails if it does
TTLRekey ==
    /\ call.pc = "ttl_rekey"
    /\ UNCHANGED <<ht, obs>>
    /\ \/ api' = handshake_done(api) /\ call' = [call EXCEPT !.pc = "ttl_send"]
       \/ api' = api /\ call' = done(call, FALSE)

\* the command goes out
TTLSend ==
    /\ call.pc = "ttl_send"
    /\ obs' = transmitted(obs, 0)
    /\ call' = done(call, TRUE)
    /\ UNCHANGED <<ht, api>>

TTLTick ==
    /\ call.pc \in {"idle", "ttl_check"}
    /\ \E d \in ClockSteps :
         /\ api.now + d <= MaxClock
         /\ api' = [api EXCEPT !.now = @ + d]
    /\ UNCHANGED <<ht, call, obs>>

NextTTL ==
    \/ TTLSet \/ TTLConnect \/ TTLDisconnect \/ TTLCommand
    \/ TTLCheck \/ TTLRekey \/ TTLSend \/ TTLTick \/ Return

SpecTTL == InitHT /\ [][NextTTL]_vars

(***************************************************************************)
(* RandomRangeSequence (RandomRangeSequence.cpp, RandomRangeSequence.h),   *)
(* driven directly with an entropy source that hands out any words.  The   *)
(* generator's 32-bit integers are modelled at a width of IntBits bits:    *)
(* int32_t is a signed and uint32_t an unsigned IntBits-bit integer, so    *)
(* that the largest range the constructor takes can be enumerated.  The    *)
(* state of the generator and of its caller's buffer is held in call.      *)
(***************************************************************************)
RECURSIVE Pow2(_)
Pow2(n) == IF n = 0 THEN 1 ELSE 2 * Pow2(n - 1)

\* conversion to uintN_t, and of its bits to intN_t
ToUnsigned(x) == x % Pow2(IntBits)

ToSigned(u) == IF u >= Pow2(IntBits - 1) THEN u - Pow2(IntBits) ELSE u

c_min_range_value == 0 - (Pow2(IntBits - 1) - 1)

c_max_range_value == Pow2(IntBits - 1) - 1

c_max_sequences == Pow2(IntBits) - 1

\* (min_limit, max_limit) a caller constructs the generator with
RangeLimits ==
    {<<1, 1>>, <<1, 3>>, <<0 - 1, 1>>, <<2, 1>>,
     <<c_min_range_value, 0>>, <<c_min_range_value, c_max_range_value>>}

\* the words get_entropy hands out
EntropyWords == {0, 0 - 2}

\* what the caller's buffer holds before the call
CallerFill == {0}

\* the constructor: the checks on the limits, c_actual_range, and the
\* capacity of mn_random_buffer, c_actual_range + 1 in uint32_t
RandomRangeSequence_new(min_limit, max_limit) ==
    LET range == ToUnsigned(max_limit - min_limit) + 1 IN
    IF \/ min_limit < c_min_range_value
       \/ max_limit > c_max_range_value
       \/ min_limit > max_limit
       \/ range > c_max_sequences
    THEN [m_is_error |-> TRUE, c_min_limit |-> min_limit, c_actual_range |-> 0,
          random_capacity |-> 0]
    ELSE [m_is_error |-> FALSE, c_min_limit |-> min_limit, c_actual_range |-> range,
          random_capacity |-> ToUnsigned(range + 1)]

\* init(): m_current_number_buffer[i] = i + 1, a uint32_t stored in an
\* int32_t
rrs_init(range) == [i \in 1..range |-> ToSigned(ToUnsigned(i))]

\* the slots defragment() keeps, in their order
RECURSIVE defragment(_)
defragment(buf) ==
    IF buf = <<>> THEN <<>>
    ELSE IF Head(buf) # 0 - 1 THEN <<Head(buf)>> \o defragment(Tail(buf))
         ELSE defragment(Tail(buf))

\* dest[i] - 1 + c_min_limit in int32_t, the overflow wrapping
to_absolute(v, min_limit) == ToSigned(ToUnsigned(ToSigned(ToUnsigned(v - 1)) + min_limit))

\* the while condition of generate_sequence
rrs_more(c) == Len(c.buf) > 0 /\ c.m_dest_idx < c.size

\* generate_sequence up to the loop: the checks on size, init()
RRSGenerate ==
    /\ call.pc = "idle"
    /\ obs.calls < MaxCalls
    /\ \E lim \in RangeLimits, fill \in CallerFill :
         LET g == RandomRangeSequence_new(lim[1], lim[2]) IN
         \E size \in 0..c_max_sequences :
            /\ size <= g.c_actual_range + 1
            /\ call' = [pc |-> IF g.m_is_error \/ size > g.c_actual_range \/ size = 0
                               THEN "done" ELSE "rrs_loop",
                        op |-> "generate_sequence",
                        min |-> lim[1], max |-> lim[2], size |-> size,
                        random_capacity |-> g.random_capacity,
                        buf |-> IF g.m_is_error THEN <<>> ELSE rrs_init(g.c_actual_range),
                        dest |-> [k \in 1..size |-> fill],
                        m_dest_idx |-> 0, i |-> 0, requests |-> 0,
                        result |-> FALSE]
    /\ obs' = [obs EXCEPT !.calls = @ + 1]
    /\ UNCHANGED <<ht, api>>

\* the while test and get_entropy(mn_random_buffer, size), which fails or
\* fills size words; filling more words than the buffer holds runs past it,
\* and the process may end there.  After the loop the relative numbers are
\* made absolute; dest[i] - 1 overflows for the smallest int32_t, and the
\* process may end there.
RRSEntropy ==
    /\ call.pc = "rrs_loop"
    /\ UNCHANGED <<ht, api, obs>>
    /\ IF rrs_more(call)
       THEN \/ call' = [call EXCEPT !.pc = "done", !.requests = @ + 1]
            \/ call' = [call EXCEPT !.pc = "rrs_iterate", !.requests = @ + 1, !.i = 0]
            \/ /\ call.size > call.random_capacity
               /\ call' = [call EXCEPT !.pc = "crashed", !.requests = @ + 1]
       ELSE \/ call' = [call EXCEPT !.pc = "done", !.result = TRUE,
                           !.dest = [k \in 1..call.size |->
                                        to_absolute(call.dest[k], call.min)]]
            \/ /\ \E k \in 1..call.size : call.dest[k] = 0 - Pow2(IntBits - 1)
               /\ call' = [call EXCEPT !.pc = "crashed"]

\* one pass of the for loop of iterate() with the entropy word e, and
\* defragment() when the loop ends
RRSIterate ==
    /\ call.pc = "rrs_iterate"
    /\ UNCHANGED <<ht, api, obs>>
    /\ IF call.i < call.size /\ call.m_dest_idx < call.size
       THEN \E e \in EntropyWords :
              LET idx == ToUnsigned(e) % Len(call.buf) IN
              IF call.buf[idx + 1] # 0 - 1
              THEN call' = [call EXCEPT !.dest[call.m_dest_idx + 1] = call.buf[idx + 1],
                                        !.m_dest_idx = @ + 1,
                                        !.buf[idx + 1] = 0 - 1,
                                        !.i = @ + 1]
              ELSE call' = [call EXCEPT !.i = @ + 1]
       ELSE call' = [call EXCEPT !.pc = "rrs_loop", !.buf = defragment(@)]

\* the caller takes the result; the generator can be used again
RRSReturn ==
    /\ call.pc \in {"done", "crashed"}
    /\ call.op = "generate_sequence"
    /\ call' = call_idle
    /\ UNCHANGED <<ht, api, obs>>

NextRRS == RRSGenerate \/ RRSEntropy \/ RRSIterate \/ RRSReturn

SpecRRS == InitHT /\ [][NextRRS]_vars

(***************************************************************************)
(* ShaEntropyExtractor (ShaEntropyExtractor.cpp), driven directly.  The    *)
(* state of one extract_entropy call is held in call; requested sums the   *)
(* lengths asked of get_noise.                                             *)
(***************************************************************************)
\* the product a * b of two non-negative ints as the int multiplication
\* gives it when it wraps, and whether it overflows; b by 16-bit halves
MulInt32(a, b) ==
    LET lo_full == a * (b % TwoTo16)
        hi_full == a * (b \div TwoTo16) + lo_full \div TwoTo16
        hi == hi_full % TwoTo16
    IN  [overflow |-> hi_full >= TwoTo16 \div 2,
         value |-> (IF hi >= TwoTo16 \div 2 THEN hi - TwoTo16 ELSE hi) * TwoTo16
                   + (lo_full % TwoTo16)]

\* x / y and x % y of C for y > 0: the quotient truncated towards zero
DivC(x, y) == IF x % y = 0 \/ x >= 0 THEN x \div y ELSE (x \div y) + 1

ModC(x, y) == IF x % y = 0 \/ x >= 0 THEN x % y ELSE (x % y) - y

\* the hash sizes of Sha256 and Sha512, the in/out ratios, and the lengths
\* asked for: around one hash, around one noise buffer and MaxBuffers of
\* them, and the largest one an int holds
HashSizes == {32, 64}

Ratios == {1, 2}

MaxInt32 == (TwoTo16 \div 2 - 1) * TwoTo16 + (TwoTo16 - 1)

ExtractLengths(H) ==
    {1, H - 1, H, H + 1, HashesPerBuffer * H, HashesPerBuffer * H + 1,
     MaxBuffers * HashesPerBuffer * H + 1, MaxInt32}

\* extract_hash_values: sha_qty hashes, each giving m_cur_sha_size bytes to
\* the caller or what is still needed of them; the bytes still needed then.
\* The passes of the loop are taken as a first and a second half.
RECURSIVE extract_hash_values(_, _, _)
extract_hash_values(sha_qty, needed, H) ==
    IF needed < 0 \/ sha_qty <= 0 THEN needed
    ELSE IF sha_qty = 1 THEN (IF needed >= H THEN needed - H ELSE 0)
    ELSE extract_hash_values(sha_qty - sha_qty \div 2,
                             extract_hash_values(sha_qty \div 2, needed, H), H)

\* extract_entropy up to the loop: the quantities it computes.  The
\* product in_sha_byte_qty * sha_qty is an int; where it overflows the call
\* goes on with the wrapped value or the process ends.
ExtractEntropy ==
    /\ call.pc = "idle"
    /\ obs.calls < MaxCalls
    /\ obs' = [obs EXCEPT !.calls = @ + 1]
    /\ UNCHANGED <<ht, api>>
    /\ \E H \in HashSizes, ratio \in Ratios :
       \E len \in ExtractLengths(H) \cup {0} :
         LET m_noise_buff_bytes == ratio * H * HashesPerBuffer
             sha_qty == (len \div H) + (IF len % H # 0 THEN 1 ELSE 0)
             in_sha_byte_qty == H * ratio
             product == MulInt32(in_sha_byte_qty, sha_qty)
             total_in_sha_byte_qty == product.value
             c == [pc |-> "extract_loop", op |-> "extract_entropy",
                   len |-> len, H |-> H, ratio |-> ratio, sha_qty |-> sha_qty,
                   m_noise_buff_bytes |-> m_noise_buff_bytes,
                   in_sha_byte_qty |-> in_sha_byte_qty,
                   overflow |-> product.overflow,
                   total_noise_req_qty |-> DivC(total_in_sha_byte_qty, m_noise_buff_bytes),
                   last_noise_req_bytes |-> ModC(total_in_sha_byte_qty, m_noise_buff_bytes),
                   req |-> 0, entropy_bytes_needed |-> len,
                   requested |-> 0, result |-> FALSE]
         IN  \/ len < 1 /\ call' = [c EXCEPT !.pc = "done"]
             \/ len >= 1 /\ call' = c
             \/ len >= 1 /\ product.overflow /\ call' = [c EXCEPT !.pc = "crashed"]

\* one pass of the for loop: get_noise for a whole buffer (it fails, or
\* gives the bytes) and the hashes of the buffer; after the loop the last,
\* partial buffer
ExtractRequest ==
    /\ call.pc = "extract_loop"
    /\ UNCHANGED <<ht, api, obs>>
    /\ IF call.req < call.total_noise_req_qty
       THEN \/ call' = [call EXCEPT !.pc = "done",
                                    !.requested = @ + call.m_noise_buff_bytes]
            \/ call' = [call EXCEPT
                  !.req = @ + 1,
                  !.requested = @ + call.m_noise_buff_bytes,
                  !.entropy_bytes_needed =
                      extract_hash_values(call.m_noise_buff_bytes \div call.in_sha_byte_qty,
                                          @, call.H)]
       ELSE IF call.last_noise_req_bytes > 0 /\ call.entropy_bytes_needed > 0
            THEN \/ call' = [call EXCEPT !.pc = "done",
                                         !.requested = @ + call.last_noise_req_bytes]
                 \/ call' = [call EXCEPT
                       !.pc = "done", !.result = TRUE,
                       !.requested = @ + call.last_noise_req_bytes,
                       !.entropy_bytes_needed =
                           extract_hash_values(
                               call.last_noise_req_bytes \div call.in_sha_byte_qty,
                               @, call.H)]
            ELSE call' = [call EXCEPT !.pc = "done", !.result = TRUE]

ExtractReturn ==
    /\ call.pc \in {"done", "crashed"}
    /\ call.op = "extract_entropy"
    /\ call' = call_idle
    /\ UNCHANGED <<ht, api, obs>>

NextSha == ExtractEntropy \/ ExtractRequest \/ ExtractReturn

SpecSha == InitHT /\ [][NextSha]_vars

(***************************************************************************)
(* Properties.                                                             *)
(***************************************************************************)
\* the call in progress goes through execute_command
UsesFraming(c) ==
    \/ c.op \in {"connect", "retrieve_rng_status", "run_health_test",
                 "retrieve_frequency_tables"}
    \/ c.op \in BulkReads /\ c.framed

\* the call is at a point where the request of a block is about to be sent
AtBlockRequest == call.pc \in {"exec", "payload_try"} /\ call.op \in HealthTestedReads

\* C1: an attempt of a framed command succeeds, and a framed command is
\* reported successful, only with an accepted response whose token equals
\* the token minted for that attempt; an accepted response with any other
\* token fails the attempt.
C1_TokenCorrelates ==
    /\ (call.pc = "exec_ret" /\ call.ok) =>
           (call.accepted /\ call.resp.token = call.token)
    /\ (call.pc = "done" /\ UsesFraming(call) /\ call.result) =>
           (call.accepted /\ call.resp.token = call.token /\ call.token # NoToken)

C1_Witness ==
    /\ call.pc = "exec_ret"
    /\ call.accepted
    /\ call.resp.token # call.token
    /\ ~call.ok

\* C2: a response is accepted only if its macType is the configured one
\* and, when a MAC is configured, the head of its mac field is the HMAC the
\* host computes under the session key over token, payloadSize and
\* payload[0..payloadSize).
C2_AcceptedIsAuthentic ==
    (call.pc \in {"exec_ret", "session_ret"} /\ call.accepted) =>
        /\ call.resp.e_mac_type = api.m_cfg.e_mac_type
        /\ api.m_cfg.e_mac_type # MacType_None =>
               call.resp.mac.head = hmac(api.mac_key, response_mac_span(call.resp))

C2_Witness ==
    /\ call.pc = "exec_ret"
    /\ ~call.accepted
    /\ api.m_cfg.e_mac_type # MacType_None
    /\ call.resp.e_mac_type = api.m_cfg.e_mac_type
    /\ call.resp.token = call.token
    /\ call.resp.mac.head # hmac(api.mac_key, response_mac_span(call.resp))

\* C3: a health-tested bulk read that returns success has had no block
\* after whose test the health status was non-zero, and leaves the health
\* status zero.
C3_NoSuccessWithLatch ==
    (call.pc = "done" /\ call.op \in HealthTestedReads /\ call.result) =>
        (~obs.ht_failed /\ get_health_status(ht) = 0)

C3_Witness ==
    /\ call.pc = "done"
    /\ call.op \in HealthTestedReads
    /\ obs.ht_failed
    /\ get_health_status(ht) # 0
    /\ ~call.result

\* C4: once the health tests have failed a block of a bulk read, no further
\* request of that read is transmitted.
C4_NoRequestAfterLatch ==
    [][(obs.ht_failed /\ call.pc # "done") => obs'.sent = obs.sent]_vars

\* C5: the request of one logical command (a framed command, or one block
\* of a bulk read) is transmitted at most c_max_command_retry_count times.
C5_AtMostThreeTransmissions ==
    \A b \in 1 .. 2 : obs.sends[b] <= c_max_command_retry_count

\* C6: a bulk read in which a block's response carried a non-zero device
\* status byte returns failure.
C6_DeviceStatusFailsRead ==
    (call.pc = "done" /\ call.op \in BulkReads /\ obs.dev_status) => ~call.result

\* C7: whenever the request of a block of a health-tested bulk read is
\* about to be sent, the first block and the trailing partial one alike,
\* the RCT failure_count and the APT cycle_failures are 0.
C7_CountersRestartPerBlock ==
    AtBlockRequest =>
        (ht.m_rct.failure_count = 0 /\ ht.m_apt.cycle_failures = 0)

C7_Witness ==
    /\ AtBlockRequest
    /\ call.i = 1
    /\ BlockLength(call, 1) = PartialBytes
    /\ ht.m_max_rct_failures_per_block > 0
    /\ ht.m_rct.failure_count = 0

\* C8: with the tests enabled, never disabled, and the threshold as
\* constructed, the RCT status is 1 exactly when the recorded maximum of
\* RCT failures per block exceeds the threshold and is 0 otherwise, and the
\* APT status is 2 exactly when the recorded maximum of APT failures per
\* block exceeds the threshold and is 0 otherwise.
C8_LatchedIffMaxOverThreshold ==
    (/\ ht.m_tests_enabled
     /\ ~obs.ht_reset
     /\ ht.m_num_failures_threshold = s_min_num_failures_threshold) =>
        /\ ht.m_rct.status_byte =
               (IF ht.m_max_rct_failures_per_block > ht.m_num_failures_threshold
                THEN rct_signature ELSE 0)
        /\ ht.m_apt.status_byte =
               (IF ht.m_max_apt_failures_per_block > ht.m_num_failures_threshold
                THEN apt_signature ELSE 0)

C8_Witness ==
    /\ ht.m_tests_enabled
    /\ ~obs.ht_reset
    /\ ht.m_num_failures_threshold = s_min_num_failures_threshold
    /\ ht.m_apt.status_byte = apt_signature
    /\ ht.m_rct.status_byte = 0
    /\ ht.m_max_rct_failures_per_block > 0
    /\ ht.m_apt.cycle_failures = 0

\* C9: a data or query operation called while no connect() has succeeded
\* since construction or the last disconnect() transmits nothing and
\* returns failure.
C9_NoSessionNoTraffic ==
    (/\ call.pc # "idle"
     /\ call.op \in BulkReads \cup QueryCalls
     /\ ~obs.session_at_call) =>
        (obs.sent = 0 /\ (call.pc = "done" => ~call.result))

\* C10: when connect() has gone through its handshake attempts and returns
\* false, the transport is closed, the device lock is released and
\* is_connected() is false.
C10_FailedConnectClosesTransport ==
    (/\ call.pc = "done"
     /\ call.op = "connect"
     /\ ~call.result
     /\ call.conn_tries = c_max_command_retry_count - 1) =>
        (~api.m_device_connected /\ ~api.m_lock /\ ~is_connected(api))

\* C11: connect() gets past upload_session_key, and so returns true, only
\* with a handshake response whose token is the session record's, whose
\* payload_size is 1 and whose payload[0] is 0.
C11_HandshakeResponseChecked ==
    (/\ call.op = "connect"
     /\ call.pc \in {"exec", "exec_ret"} \/ (call.pc = "done" /\ call.result)) =>
        /\ call.sess_token # NoToken
        /\ call.sess_resp.token = call.sess_token
        /\ call.sess_resp.payload_size = 1
        /\ call.sess_resp.payload.status = 0

C11_Witness ==
    /\ call.op = "connect"
    /\ call.pc = "done"
    /\ call.result
    /\ call.conn_tries > 0
    /\ call.sess_resp.token = call.sess_token

C13_SerialIsPreviousSentPlusOne ==
    [][(/\ uses_aes(api)
        /\ call.pc # "connect_try"
        /\ obs'.sent = obs.sent + 1) =>
           obs'.last_iv = iv_serial_after(obs.last_iv)]_vars

\* C13, amended: in AES mode every packet sent carries the cryptor's IV
\* serial, which moves on by exactly one modulo 2^32 with every IV generated
\* in the session, for packets that are sent and for packets that are built
\* and not sent alike; so the serial after a send is one past the packet's,
\* and a later packet of the session never carries an earlier serial again
\* within 2^32 generations.
C13_SerialAdvancesPerGeneratedIv ==
    [][/\ (uses_aes(api) /\ obs'.sent = obs.sent + 1) =>
             api'.m_iv_serial_number = iv_serial_after(obs'.last_iv)
       /\ (uses_aes(api) /\ call.pc # "connect_try" /\ obs'.sent = obs.sent + 1) =>
             obs'.last_iv = api.m_iv_serial_number
       /\ (call.pc # "connect_try" /\ api'.m_iv_serial_number # api.m_iv_serial_number) =>
             api'.m_iv_serial_number = iv_serial_after(api.m_iv_serial_number)]_vars

\* a packet was sent with the last serial before the 32-bit wrap, and the
\* one IV generated after it (serial 0) went into a packet that was not sent
C13_Witness ==
    /\ uses_aes(api)
    /\ obs.last_iv = <<TwoTo16 - 1, TwoTo16 - 1>>
    /\ api.m_iv_serial_number = <<0, 1>>

\* C14: within one session the serial subfield of the tokens minted for
\* successive commands is strictly increasing, for any number of commands.
\* (A step of exec mints the token of a command attempt; the token before it
\* is the one of the session packet or of an earlier command attempt of the
\* same session.)
C14_TokenSerialStrictlyIncreasing ==
    [][(/\ call.pc = "exec"
        /\ obs.last_token # NoToken
        /\ obs'.last_token # obs.last_token) =>
           obs'.last_token.serial > obs.last_token.serial]_vars

\* C15: a generate_sequence call that returns true has written values that
\* are pairwise distinct and all lie in [min..max], whatever words the
\* entropy source returned.
C15_SequenceDistinctInRange ==
    (call.op = "generate_sequence" /\ call.pc = "done" /\ call.result) =>
        /\ \A k \in 1..call.size : call.min <= call.dest[k] /\ call.dest[k] <= call.max
        /\ \A k, l \in 1..call.size : k # l => call.dest[k] # call.dest[l]

\* C16: generate_sequence makes at most `size` entropy requests, for any
\* entropy words.
C16_AtMostSizeEntropyRequests ==
    call.op = "generate_sequence" => call.requests <= call.size

\* bytes memcpy has put at dest: the lengths of the blocks copied
RECURSIVE WrittenBytes(_)
WrittenBytes(out) ==
    IF out = <<>> THEN 0 ELSE Head(out).len + WrittenBytes(Tail(out))

\* byte j of the destination: byte j mod block_size_bytes of the payload
\* copied for block j div block_size_bytes
DestByte(c, j) ==
    PatternByte(c.out[(j \div c.block_size_bytes) + 1].data, j % c.block_size_bytes)

\* C17 as stated: a successful bulk read of L bytes with block size B has
\* issued exactly ceil(L/B) requests.
C17_ExactlyCeilRequests ==
    (call.op \in BulkReads /\ call.pc = "done" /\ call.result) =>
        obs.sent = NumBlocks(call)

\* C17, amended: a successful bulk read of L bytes with block size B has
\* transmitted at least ceil(L/B) requests, every block's request at least
\* once (more where an attempt was repeated), and has written exactly L
\* bytes: the first B payload bytes of a response for each full block, then
\* the first L mod B bytes of one for the last; with a device that answers
\* testData with bytes 0..255, byte j of get_test_data is j mod 256.
C17_ReadWritesRequestedBytes ==
    (call.op \in BulkReads /\ call.pc = "done" /\ call.result) =>
        /\ obs.sent >= NumBlocks(call)
        /\ \A b \in 1..NumBlocks(call) : obs.sends[b] >= 1
        /\ Len(call.out) = NumBlocks(call)
        /\ \A b \in 1..NumBlocks(call) :
              /\ call.out[b].data \in Patterns
              /\ call.out[b].len = IF b <= call.out_length \div call.block_size_bytes
                                   THEN call.block_size_bytes
                                   ELSE call.out_length % call.block_size_bytes
        /\ WrittenBytes(call.out) = call.out_length
        /\ call.op = "get_test_data" =>
              \A j \in 0..(call.out_length - 1) : DestByte(call, j) = j % 256

\* a get_test_data of a full and a trailing block succeeded after an
\* attempt was repeated
C17_Witness ==
    /\ call.op = "get_test_data" /\ call.pc = "done" /\ call.result
    /\ NumBlocks(call) = 2
    /\ call.out_length % call.block_size_bytes > 0
    /\ obs.sent > 2

\* C18: an extract_entropy(L) that returns true has requested from
\* get_noise, summed over its calls, exactly ceil(L/H) * H * ratio noise
\* bytes (a number an int does not hold is not the sum of what was asked).
C18_ExactNoiseBytesRequested ==
    (call.op = "extract_entropy" /\ call.pc = "done" /\ call.result) =>
        /\ ~call.overflow
        /\ call.requested = call.sha_qty * (call.H * call.ratio)

\* C19: a command whose payload_size is greater than 256 is rejected before
\* a token is minted or a byte is sent, and a response whose payload_size is
\* greater than 16096 is never accepted.
C19_OversizedPayloadRejected ==
    /\ (call.op = "execute_command" /\ call.cmd_payload_size > 256) =>
          /\ call.pc = "done" /\ ~call.result
          /\ call.token = NoToken
          /\ obs.sent = 0
    /\ (call.pc = "exec_ret" /\ call.accepted) => call.resp.payload_size <= 16096

\* a command with the largest payload_size taken (256) was sent and its
\* response, of payload_size 16097, was not accepted
C19_Witness ==
    /\ call.op = "execute_command" /\ call.cmd_payload_size = 256
    /\ call.pc = "exec_ret" /\ ~call.accepted
    /\ call.resp.payload_size = 16097

\* C20: the packet payload size computed for a command of raw size n is, in
\* AES mode, the smallest multiple of the key size in bytes (16 or 32) that
\* is >= n, and exactly n in no-cipher mode.
C20_CommandPacketSizePadded ==
    (call.pc = "done" /\ call.op = "get_cmd_packet_payload_size") =>
        IF api.m_cfg.e_aes_key_size \in {16, 32}
        THEN /\ call.packet_size % api.m_cfg.e_aes_key_size = 0
             /\ call.packet_size >= call.n
             /\ call.packet_size - call.n < api.m_cfg.e_aes_key_size
        ELSE call.packet_size = call.n

\* a command of 64 bytes, a whole multiple of the 16-byte key size, keeps
\* its size
C20_Witness ==
    /\ call.pc = "done" /\ call.op = "get_cmd_packet_payload_size"
    /\ api.m_cfg.e_aes_key_size = 16
    /\ call.n = 64 /\ call.packet_size = 64

\* C21: whenever the health tests are disabled, neither test has a latched
\* status (both status bytes are 0, is_error() is false), after any sequence
\* of enable, disable, restart, set-threshold and test calls on any bytes,
\* and test() on any block leaves the whole object as it is.
C21_DisabledMeansNoStatus ==
    ~ht.m_tests_enabled =>
        /\ ht.m_rct.status_byte = 0
        /\ ht.m_apt.status_byte = 0
        /\ ~is_error(ht)
        /\ get_health_status(ht) = 0
        /\ \A p \in Patterns, n \in TestLengths : test(ht, p, n) = ht

\* tests disabled after a block had latched a status (the recorded maximum
\* is over the threshold) and restarted since
C21_Witness ==
    /\ ~ht.m_tests_enabled
    /\ obs.ht_reset
    /\ ht.m_max_apt_failures_per_block > ht.m_num_failures_threshold
    /\ ht.m_max_rct_failures_per_block > ht.m_num_failures_threshold
    /\ ht.m_apt.status_byte = 0
    /\ ~ht.m_rct.is_initialized

\* C22: set_num_failures_threshold(n), n any 8-bit value, changes the
\* threshold, and nothing else, when n >= 6, and changes nothing when n <= 5;
\* the threshold in effect is the default 5 or a value of 6 or more that a
\* caller gave.
C22_ThresholdOnlyAboveFive ==
    /\ \A n \in 0..255 :
          set_num_failures_threshold(ht, n) =
              (IF n >= 6 THEN [ht EXCEPT !.m_num_failures_threshold = n]
               ELSE ht)
    /\ \/ ht.m_num_failures_threshold = 5
       \/ ht.m_num_failures_threshold >= 6
            /\ ht.m_num_failures_threshold \in Thresholds

\* a threshold of 6 in effect: six RCT failures in a block have not latched
C22_Witness ==
    /\ ht.m_num_failures_threshold = 6
    /\ ht.m_tests_enabled
    /\ ht.m_rct.failure_count = 6
    /\ ht.m_rct.status_byte = 0

\* C23: with the tests enabled and the threshold as constructed, a block of
\* 256 bytes of one value fed after restart() has the RCT status latched to
\* 1 before its last byte is processed: while the block is being fed the
\* status is 1 once 25 of its bytes are done.
C23_ConstantBlockLatchesRct ==
    (/\ ht.m_tests_enabled
     /\ ht.m_num_failures_threshold = s_min_num_failures_threshold
     /\ call.pc = "block"
     /\ call.i >= 25) =>
        /\ ht.m_rct.status_byte = rct_signature
        /\ get_health_status(ht) = rct_signature

\* the last byte of the first block of a new object is still to come: RCT
\* is latched, APT (three windows done) is not
C23_Witness ==
    /\ call.pc = "block"
    /\ call.i = BlockLength256 - 1
    /\ ht.m_tests_enabled
    /\ ~obs.ht_reset
    /\ ht.m_num_failures_threshold = s_min_num_failures_threshold
    /\ ht.m_rct.status_byte = rct_signature
    /\ ht.m_rct.failure_count = 63
    /\ ht.m_apt.status_byte = 0

\* C27: a latched RCT or APT status stays as it is through every step of
\* the API, and through restart() followed by test() on any block; only
\* disable_tests() on enabled tests takes it back.  So a health-tested bulk
\* read that ends while a status is latched returns failure, whatever data
\* the device sent for it.
C27_LatchedStatusStays ==
    [][/\ ht.m_rct.status_byte # 0 => ht'.m_rct.status_byte = ht.m_rct.status_byte
       /\ ht.m_apt.status_byte # 0 => ht'.m_apt.status_byte = ht.m_apt.status_byte
       /\ is_error(ht) =>
              /\ \A p \in Patterns, n \in TestLengths :
                     get_health_status(test(restart(ht), p, n))
                         = get_health_status(ht)
              /\ ~is_error(disable_tests(ht))
              /\ disable_tests(disable_tests(ht)) = disable_tests(ht)
       /\ (/\ is_error(ht)
           /\ call.pc # "done" /\ call'.pc = "done"
           /\ call'.op \in HealthTestedReads) => ~call'.result
      ]_vars

\* the second read of an instance whose first read latched a status on the
\* one faulty block of the run: the block of the second read had no RCT or
\* APT failure and was copied out, and the read failed on the health status
C27_Witness ==
    /\ obs.calls = 2
    /\ call.pc = "done" /\ call.op \in HealthTestedReads
    /\ ~call.result
    /\ obs.faults = 1
    /\ obs.ht_failed
    /\ is_error(ht)
    /\ ht.m_rct.failure_count = 0
    /\ ht.m_apt.cycle_failures = 0
    /\ ht.m_rct.is_initialized
    /\ call.out[1].len > 0

\* C28: in the adaptive proportion test every byte of a window after the
\* first sample that equals the first sample adds one to cur_repetitions,
\* the byte that completes the window (cur_samples reaching window_size)
\* included.
C28_EveryWindowByteCounted ==
    [][(/\ call.pc = "block"
        /\ ht.m_tests_enabled
        /\ ht.m_apt.is_initialized
        /\ call.value = ht.m_apt.first_sample) =>
            ht'.m_apt.cur_repetitions = ht.m_apt.cur_repetitions + 1
      ]_vars

\* C29: every response that a framed bulk read accepts for a block has
\* payloadSize equal to the block size plus 1, so the status byte at
\* payload[block_size] and the data bytes copied out lie in the part of the
\* payload that the MAC covers.
C29_AcceptedPayloadIsWholeBlock ==
    (/\ call.pc = "exec_ret"
     /\ call.op \in BulkReads
     /\ call.framed
     /\ call.ok) =>
        call.resp.payload_size = call.block_size_bytes + 1

\* C30: an attempt of a framed command after the first mints a token that
\* differs from the token of every earlier attempt; a response it accepts
\* that carries the token of an earlier attempt fails the attempt, and an
\* attempt that succeeds has the response with its own token.
C30_LateResponseRejected ==
    [][(/\ call.pc = "exec" /\ call'.pc = "exec_ret"
        /\ call.tries >= 1
        /\ call.token # NoToken) =>
           /\ api'.m_token_serial_number # api.m_token_serial_number =>
                  call'.token \notin {call.token, obs.last_token}
           /\ (call'.accepted /\ call'.resp.token \in {call.token, obs.last_token})
                  => ~call'.ok
           /\ call'.ok => (call'.accepted /\ call'.resp.token = call'.token)
      ]_vars

\* the second attempt of a command, both attempts transmitted: the response
\* is well-formed and accepted, carries the token of the first attempt (one
\* serial back), and the attempt fails
C30_Witness ==
    /\ call.pc = "exec_ret"
    /\ call.tries = 1
    /\ obs.sends[call.i + 1] = 2
    /\ call.accepted
    /\ call.resp.payload_size = call.expected
    /\ call.resp.token.serial = (call.token.serial + TwoTo16 - 1) % TwoTo16
    /\ call.resp.token.hi = call.token.hi
    /\ ~call.ok

\* C24: no two objects are connected to the same device path at the same
\* time; an object that is connected, or past the flock of its connect,
\* holds the exclusive lock of its path, and an idle object that is not
\* connected holds none (the lock is held from the successful connect until
\* that object disconnects); a connect whose flock comes while another
\* object holds the path returns false and leaves the lock with its holder.
C24_ExclusiveDeviceLock ==
    [][/\ \A i \in Instances, j \in Instances :
             (/\ i # j
              /\ api'[i].m_device_connected /\ api'[j].m_device_connected)
                 => api'[i].m_fd # api'[j].m_fd
       /\ \A i \in Instances :
             /\ (api'[i].m_device_connected \/ call'[i].pc = "config")
                    => obs'.holder[api'[i].m_fd] = i
             /\ (call'[i].pc = "idle" /\ ~api'[i].m_device_connected)
                    => \A p \in DevicePaths : obs'.holder[p] # i
             /\ (/\ call[i].pc = "flock" /\ call'[i].pc # "flock"
                 /\ obs.holder[api[i].m_fd] \notin {0, i})
                    => /\ call'[i].pc = "idle" /\ call'[i].result = 2
                       /\ ~api'[i].m_device_connected
                       /\ obs'.holder = obs.holder
      ]_vars

\* object 2 is connected to path 1 and holds its lock; object 1 tried the
\* same path, was refused the lock and returned false
C24_Witness ==
    /\ api[2].m_device_connected /\ api[2].m_fd = 1
    /\ obs.holder[1] = 2
    /\ call[1].pc = "idle" /\ call[1].result = 2
    /\ api[1].m_fd = 1 /\ api[1].m_lock = 0 - 1
    /\ ~api[1].m_device_connected

\* C25: every block of memory released by the destruction of an API
\* instance or of its cipher and MAC objects, the replacement of the AES
\* cryptor at a handshake included, holds zeros when it is released.
C25_ReleasedMemoryZeroed ==
    \A b \in obs.released : b.kind = "zeros"

\* C26: a to_file call with num_bytes > 0 (and within the limit) that
\* returns success has written to the file floor(num_bytes / 100000) chunks
\* of 100000 bytes and then, if num_bytes mod 100000 is not 0, one chunk of
\* that many bytes, num_bytes bytes in all; and a pass whose read of the
\* device fails writes nothing and ends the call with failure.
C26_FileHoldsNumBytes ==
    [][/\ (/\ call'.pc = "done" /\ call'.result
           /\ call'.num_bytes > 0) =>
               LET q == call'.num_bytes \div 100000
                   r == call'.num_bytes % 100000
                   f == obs'.file
               IN  /\ Len(f) = q + (IF r > 0 THEN 1 ELSE 0)
                   /\ \A k \in 1 .. q : f[k] = 100000
                   /\ r > 0 => f[q + 1] = r
                   /\ q * 100000 + (IF r > 0 THEN f[Len(f)] ELSE 0)
                          = call'.num_bytes
                   /\ ~obs'.read_failed
       /\ (obs'.read_failed /\ ~obs.read_failed) =>
               /\ obs'.file = obs.file
               /\ call'.pc = "done" /\ ~call'.result
       /\ call'.num_bytes <= 0 => ~(call'.pc = "done" /\ call'.result)
      ]_vars

\* a call for two whole buffers and 30 bytes has returned success
C26_Witness ==
    /\ call.pc = "done" /\ call.result
    /\ call.num_bytes = MaxChunks * c_file_output_buff_size_bytes + PartialBytes
    /\ Len(obs.file) = MaxChunks + 1
    /\ obs.file[MaxChunks + 1] = PartialBytes
    /\ obs.calls = 2

\* C31: in AES mode the IV under which the response of a command attempt is
\* decrypted differs from the IV under which the request of that attempt,
\* like any request of the session, was encrypted.
C31_DecryptIvNotAnEncryptIv ==
    [][(/\ uses_aes(api)
        /\ call.pc = "exec" /\ call'.pc = "exec_ret"
        /\ obs'.sent = obs.sent + 1
        /\ call'.accepted) =>
           context_iv(api') # obs'.last_iv]_vars

\* C32: a generate_sequence call that returns true has emitted exactly
\* `size` values from its sampling loop; with size equal to the number of
\* values of the range the output holds every value of [min..max].
C32_ExactlySizeEmitted ==
    (call.op = "generate_sequence" /\ call.pc = "done" /\ call.result) =>
        /\ call.m_dest_idx = call.size
        /\ call.size = ToUnsigned(call.max - call.min) + 1 =>
               \A v \in call.min .. call.max :
                   \E k \in 1..call.size : call.dest[k] = v

\* C33: every token minted is (seconds << 32) | (serial << 16) | rnd16 as a
\* 64-bit value: its upper 32 bits are the wall clock seconds at minting,
\* whatever the serial, then come the serial and the 16 random bits.
C33_TokenIsSecondsSerialRnd ==
    [][obs'.last_token # obs.last_token =>
          /\ obs'.last_token.hi =
                 <<(api.now \div TwoTo16) % TwoTo16, api.now % TwoTo16>>
          /\ obs'.last_token.serial = api.m_token_serial_number
          /\ obs'.last_token.rnd \in Rnd16]_vars

\* C34: the retry count grows by one for each repeated attempt actually
\* performed: when an attempt of a framed command has returned, the count
\* grows by one if the command is attempted again and stays as it is
\* otherwise, so a command that fails after its 3 attempts adds 2.
C34_RetryCountCountsRepeats ==
    [][(call.pc = "exec_ret" /\ call.op # "connect") =>
          api'.m_op_retry_count = api.m_op_retry_count +
              (IF call'.pc = "exec" /\ call'.tries = call.tries + 1
               THEN 1 ELSE 0)]_vars

\* C35: in the Session record sent at the handshake the bytes of key beyond
\* the key size and the bytes of mac_key beyond the MAC length are zero:
\* mac_key is all zero when the MAC type is None and key is all zero when
\* the key size is None.
C35_UnusedKeyBytesZero ==
    obs.sessions > 0 =>
        /\ \A i \in 1 .. SizeofSessionKey :
               i > obs.sent.e_size => obs.sent.key[i] = 0
        /\ \A i \in 1 .. SizeofSessionKey :
               i > obs.sent.e_mac_type => obs.sent.mac_key[i] = 0

\* C36: clear_receiver returns as soon as a read of its 128-byte buffer
\* fails or times out before 128 bytes arrived, and, the device falling
\* silent in the end, every connect and every command with its retry loop
\* returns.
C36_DrainAndLoopsTerminate ==
    /\ [][(call.pc = "clear_receiver" /\ obs' = obs) =>
              call'.pc # "clear_receiver"]_vars
    /\ (call.pc # "idle") ~> (call.pc = "idle")

C36_Witness ==
    /\ call.pc = "idle"
    /\ call.op = "execute_command"
    /\ ~call.result
    /\ call.full > 0
    /\ obs.budget = 0

\* C37: what device_read returns once the driver thread has answered is the
\* status and the bytes the thread produced for that very request, never
\* those of an earlier request that timed out, so the bytes copied to the
\* caller never exceed min(requested length, 100000).
C37_ResultIsOfThisRequest ==
    \A r \in Readers :
        (~obs.touched /\ call[r].pc = "idle" /\ call[r].woken) =>
            /\ call[r].status_req = call[r].req
            /\ call[r].copied <= call[r].length
            /\ call[r].copied <= MAX_BYTES_USER_CAN_REQUEST

\* C40: no reader and no step of the driver thread uses the data mutex,
\* threadData or one of the two completions before init_alrandom has
\* initialised it.
C40_InitialisedBeforeUse ==
    ~obs.touched

\* C38: a client that sent a diagnostic request of n bytes, 1 <= n <= 100000,
\* gets on its pipe instance exactly n bytes with byte t equal to t mod 256,
\* whatever the clients of the other instances do at the same time.
C38_DiagnosticReplyIsCounter ==
    \A p \in Pipes :
        (/\ call[p].pc = "served"
         /\ call[p].whole
         /\ call[p].cmd = c_cmd_diag_id
         /\ call[p].n \in 1 .. c_write_buff_size_bytes) =>
            call[p].got = [t \in 1 .. call[p].n |-> (t - 1) % 256]

C38_Witness ==
    /\ call[1].pc = "served" /\ call[1].whole
    /\ call[1].cmd = c_cmd_diag_id /\ call[1].n = 257
    /\ call[2].pc = "served" /\ call[2].whole
    /\ call[2].cmd = c_cmd_diag_id /\ call[2].n = 1

\* C39: a pipe instance is in the writing state, and its request is
\* processed, only after a whole READCMD (8 bytes) was read from its client,
\* whether the read completed at once or as a pending overlapped operation.
C39_WritingOnlyAfterWholeReadcmd ==
    \A p \in Pipes :
        api[p].dwState = "writing" => api[p].cbRead = SizeofREADCMD

====
